---- MODULE Spec2Model ----
(***************************************************************************)
(* A model of the merge-request review pipeline:                           *)
(*   - SmartCodeReviewer   (test-repo/scripts/review_pr.py)                *)
(*   - IntelligentTagger   (test-repo/scripts/tag_mr.py)                   *)
(*   - ChangelogGenerator.categorize_changes                               *)
(*                         (test-repo/scripts/generate_changelog.py)       *)
(* Python values that come out of json.loads are kept as tagged records,   *)
(* dicts as functions from key strings to such values.                     *)
(***************************************************************************)
EXTENDS Integers, Sequences, FiniteSets, TLC

VARIABLES
    pc,               \* position of SmartCodeReviewer's __init__/run
    cfg,              \* environment variables seen by __init__ (CI_PROJECT_ID is
                      \* only formatted into the note's URL and is left out)
    git_files,        \* paths `git diff --name-only` prints
    changed_files,    \* run(): the filtered list get_changed_files returned
    idx,              \* run(): 1-based position of the for loop
    review_results,   \* self.review_results
    security_issues,  \* self.security_issues
    llm_calls,        \* history: positions of changed_files sent to generate_content
    ai_log,           \* history: per processed file, what the review call did
    notes,            \* hosting platform: the POSTs to .../notes and their outcomes
    artifacts,        \* files written by save_results (name -> content)
    run_no            \* which run of the job on this merge request this is

reviewerVars == <<pc, cfg, git_files, changed_files, idx, review_results,
                  security_issues, llm_calls, ai_log, notes, artifacts, run_no>>

VARIABLES
    t_pc,             \* position of IntelligentTagger's __init__/run
    t_cfg,            \* environment variables seen by IntelligentTagger.__init__
    ai_tags_file,     \* ai_tags.txt: missing, or its lines
    status_file,      \* ai_review_status.txt: missing, or the status dict in it
    final_tags,       \* run(): final_tags
    t_idx,            \* run(): 1-based position of `for tag in final_tags`
    created_labels,   \* run(): created_labels
    host_labels,      \* hosting platform: names of the project's labels
    mr_labels,        \* hosting platform: labels of the merge request
    ensure_log,       \* history: one entry per create_label_if_needed call
    apply_log,        \* history: one entry per PUT on the merge request
    applied_tags_file \* applied_tags.json: missing, or the dict written

taggerVars == <<t_pc, t_cfg, ai_tags_file, status_file, final_tags, t_idx,
                created_labels, host_labels, mr_labels, ensure_log, apply_log,
                applied_tags_file>>

VARIABLES
    merge_info,       \* the dict handed to categorize_changes
    returned_category \* what categorize_changes returned for it

categorizeVars == <<merge_info, returned_category>>

VARIABLES
    scan_content,     \* the text handed to analyze_security_issues
    scan_findings     \* what analyze_security_issues returned for it

scanVars == <<scan_content, scan_findings>>

VARIABLES
    s_pc,             \* position of scripts/review_pr.py
    s_cfg,            \* environment variables seen by scripts/review_pr.py
    s_response,       \* main(): ai_response
    s_idx,            \* main(): 1-based position of `for suggestion in ai_response`
    s_requests        \* history: the HTTP requests of scripts/review_pr.py

scriptVars == <<s_pc, s_cfg, s_response, s_idx, s_requests>>

vars == <<reviewerVars, taggerVars, categorizeVars, scanVars, scriptVars>>

(***************************************************************************)
(* Bounds of the model.                                                    *)
(***************************************************************************)
MaxFiles == 3
MaxLines == 3
MaxRuns == 2

(***************************************************************************)
(* Python / JSON values.                                                   *)
(***************************************************************************)
JNull == [t |-> "null"]
JBool(b) == [t |-> "bool", v |-> b]
JNum(n) == [t |-> "num", v |-> n]
JStr(s) == [t |-> "str", v |-> s]
JArr(s) == [t |-> "arr", v |-> s]
JObj(f) == [t |-> "obj", v |-> f]

\* bool(x)
Truthy(x) ==
    CASE x.t = "null" -> FALSE
      [] x.t = "bool" -> x.v
      [] x.t = "num"  -> x.v # 0
      [] x.t = "str"  -> x.v # ""
      [] x.t = "arr"  -> x.v # <<>>
      [] x.t = "obj"  -> DOMAIN x.v # {}

\* d.get(k, default) on a dict
PyGet(d, k, default) == IF k \in DOMAIN d THEN d[k] ELSE default

\* d[k] = v on a dict
PySet(d, k, val) == [x \in DOMAIN d \cup {k} |-> IF x = k THEN val ELSE d[x]]

\* len(x) raises TypeError on None, numbers and booleans
LenRaises(x) == x.t \in {"null", "num", "bool"}

PyLen(x) ==
    CASE x.t = "str" -> Len(x.v)
      [] x.t = "arr" -> Len(x.v)
      [] x.t = "obj" -> Cardinality(DOMAIN x.v)
      [] OTHER       -> 0

\* `for issue in x: issue.get(...)`: iterating a number, None or a boolean is a
\* TypeError; the items of a string and of a dict are strings, which have no
\* .get (AttributeError); so has any list item that is not a dict.
IterGetRaises(x) ==
    CASE x.t \in {"null", "num", "bool"} -> TRUE
      [] x.t = "str" -> x.v # ""
      [] x.t = "obj" -> DOMAIN x.v # {}
      [] x.t = "arr" -> \E i \in 1..Len(x.v) : x.v[i].t # "obj"

Min(a, b) == IF a < b THEN a ELSE b

RECURSIVE SumSeq(_)
SumSeq(s) == IF s = <<>> THEN 0 ELSE Head(s) + SumSeq(Tail(s))

RECURSIVE Flatten(_)
Flatten(ss) == IF ss = <<>> THEN <<>> ELSE Head(ss) \o Flatten(Tail(ss))

(***************************************************************************)
(* Text: a str is a sequence of one-character strings.                     *)
(***************************************************************************)
UpperCase == {"A", "B", "C", "D", "E", "F", "G", "H", "I", "J", "K", "L", "M",
              "N", "O", "P", "Q", "R", "S", "T", "U", "V", "W", "X", "Y", "Z"}

\* str.lower() on one character
LowerChar(c) ==
    IF c \notin UpperCase THEN c
    ELSE CASE c = "A" -> "a"
           [] c = "B" -> "b"
           [] c = "C" -> "c"
           [] c = "D" -> "d"
           [] c = "E" -> "e"
           [] c = "F" -> "f"
           [] c = "G" -> "g"
           [] c = "H" -> "h"
           [] c = "I" -> "i"
           [] c = "J" -> "j"
           [] c = "K" -> "k"
           [] c = "L" -> "l"
           [] c = "M" -> "m"
           [] c = "N" -> "n"
           [] c = "O" -> "o"
           [] c = "P" -> "p"
           [] c = "Q" -> "q"
           [] c = "R" -> "r"
           [] c = "S" -> "s"
           [] c = "T" -> "t"
           [] c = "U" -> "u"
           [] c = "V" -> "v"
           [] c = "W" -> "w"
           [] c = "X" -> "x"
           [] c = "Y" -> "y"
           [] c = "Z" -> "z"

Lower(text) == [i \in 1..Len(text) |-> LowerChar(text[i])]

\* word in text
Contains(word, text) ==
    \E i \in 0..(Len(text) - Len(word)) : SubSeq(text, i + 1, i + Len(word)) = word

StartsWith(text, prefix) ==
    Len(prefix) <= Len(text) /\ SubSeq(text, 1, Len(prefix)) = prefix

EndsWith(text, suffix) ==
    Len(suffix) <= Len(text)
    /\ SubSeq(text, Len(text) - Len(suffix) + 1, Len(text)) = suffix

(***************************************************************************)
(* The change set: paths and what the file system says about them.         *)
(***************************************************************************)
Paths == {"app.py", "test_api.js", "auth/login.ts", "README.md", "big.py", "lib.min.js"}

\* Path(file_path).suffix.lower()
Suffix(p) ==
    CASE p = "app.py"      -> ".py"
      [] p = "test_api.js" -> ".js"
      [] p = "auth/login.ts" -> ".ts"
      [] p = "README.md"   -> ".md"
      [] p = "big.py"      -> ".py"
      [] p = "lib.min.js"  -> ".js"

\* Path(file_path).exists() / .stat().st_size in the checkout
PathExists(p) == TRUE
StatSize(p) == IF p = "big.py" THEN 50001 ELSE 1200

\* re.match(pattern.replace('*', '.*'), file_path) for the default
\* ignore_patterns '.git/*', 'node_modules/*', '*.min.js', '*.bundle.js'
\* ('.git/.*', 'node_modules/.*', '.*.min.js', '.*.bundle.js')
MatchesIgnorePattern(p) == p = "lib.min.js"

max_file_size == 50000

code_extensions == {".py", ".js", ".jsx", ".ts", ".tsx", ".java", ".go", ".rs",
                    ".cpp", ".c", ".h", ".cs", ".php", ".rb", ".swift", ".kt"}

\* (variant) the size of the file is not looked at
should_review_file_any_size(file_path) ==
    IF MatchesIgnorePattern(file_path) THEN FALSE
    ELSE Suffix(file_path) \in code_extensions

should_review_file(file_path) ==
    IF MatchesIgnorePattern(file_path) THEN FALSE
    ELSE IF PathExists(file_path) /\ StatSize(file_path) > max_file_size THEN FALSE
    ELSE Suffix(file_path) \in code_extensions

RECURSIVE FilterReviewable(_)
FilterReviewable(s) ==
    IF s = <<>> THEN <<>>
    ELSE IF should_review_file(Head(s))
         THEN <<Head(s)>> \o FilterReviewable(Tail(s))
         ELSE FilterReviewable(Tail(s))

\* (variant) the filter loop is skipped and every listed path is returned
get_changed_files_unfiltered(files, git_ok) ==
    IF git_ok THEN files ELSE <<>>

\* git_ok = FALSE: subprocess.run raised and the except branch returned []
get_changed_files(files, git_ok) ==
    IF git_ok THEN FilterReviewable(files) ELSE <<>>

(***************************************************************************)
(* analyze_security_issues: the regular expressions of security_patterns,  *)
(* matched the way re.finditer(pattern, content, re.IGNORECASE) matches    *)
(* them. Each expression is an alternation of literal words followed by a  *)
(* tail of single-character items, each taken once, zero or more times     *)
(* (a star) or one or more times (a plus).                                 *)
(***************************************************************************)
One(cls)  == [cls |-> cls, q |-> "1"]
Star(cls) == [cls |-> cls, q |-> "*"]
Plus(cls) == [cls |-> cls, q |-> "+"]

\* the character sets of the expressions: \s, the literals = ( % + and s,
\* ["'], [^"'] and the dot, which matches anything but a newline
InClass(cls, c) ==
    CASE cls = "ws"       -> c \in {" ", "\t", "\n", "\r"}
      [] cls = "eq"       -> c = "="
      [] cls = "quote"    -> c \in {"\"", "'"}
      [] cls = "nonquote" -> c \notin {"\"", "'"}
      [] cls = "dot"      -> c # "\n"
      [] cls = "lparen"   -> c = "("
      [] cls = "percent"  -> c = "%"
      [] cls = "s"        -> LowerChar(c) = "s"
      [] cls = "plus"     -> c = "+"

\* \s*=\s*["'][^"']+["']
SecretTail == << Star("ws"), One("eq"), Star("ws"), One("quote"),
                 Plus("nonquote"), One("quote") >>

security_patterns ==
    << \* (password|pwd|pass)\s*=\s*["'][^"']+["']
       [category |-> "hardcoded_secrets",
        words |-> << <<"p", "a", "s", "s", "w", "o", "r", "d">>,
                     <<"p", "w", "d">>,
                     <<"p", "a", "s", "s">> >>,
        tail |-> SecretTail],
       \* (api_key|apikey|secret|token)\s*=\s*["'][^"']+["']
       [category |-> "hardcoded_secrets",
        words |-> << <<"a", "p", "i", "_", "k", "e", "y">>,
                     <<"a", "p", "i", "k", "e", "y">>,
                     <<"s", "e", "c", "r", "e", "t">>,
                     <<"t", "o", "k", "e", "n">> >>,
        tail |-> SecretTail],
       \* (SECRET_KEY|API_KEY)\s*=\s*["'][^"']+["']
       [category |-> "hardcoded_secrets",
        words |-> << <<"S", "E", "C", "R", "E", "T", "_", "K", "E", "Y">>,
                     <<"A", "P", "I", "_", "K", "E", "Y">> >>,
        tail |-> SecretTail],
       \* execute\s*\(\s*["'].*%s.*["']
       [category |-> "sql_injection",
        words |-> << <<"e", "x", "e", "c", "u", "t", "e">> >>,
        tail |-> << Star("ws"), One("lparen"), Star("ws"), One("quote"), Star("dot"),
                    One("percent"), One("s"), Star("dot"), One("quote") >>],
       \* cursor\.execute\s*\(\s*["'].*\+.*["']
       [category |-> "sql_injection",
        words |-> << <<"c", "u", "r", "s", "o", "r", ".", "e", "x", "e", "c", "u", "t", "e">> >>,
        tail |-> << Star("ws"), One("lparen"), Star("ws"), One("quote"), Star("dot"),
                    One("plus"), Star("dot"), One("quote") >>],
       \* innerHTML\s*=\s*.*\+
       [category |-> "xss_vulnerability",
        words |-> << <<"i", "n", "n", "e", "r", "H", "T", "M", "L">> >>,
        tail |-> << Star("ws"), One("eq"), Star("ws"), Star("dot"), One("plus") >>],
       \* document\.write\s*\(
       [category |-> "xss_vulnerability",
        words |-> << <<"d", "o", "c", "u", "m", "e", "n", "t", ".", "w", "r", "i", "t", "e">> >>,
        tail |-> << Star("ws"), One("lparen") >>] >>

\* how many characters from pos on are in the set
RECURSIVE RunLen(_, _, _)
RunLen(cls, content, pos) ==
    IF pos <= Len(content) /\ InClass(cls, content[pos])
    THEN 1 + RunLen(cls, content, pos + 1)
    ELSE 0

\* The tail from item k on, matched at pos: the position after the match, 0
\* when there is none. A repeated item takes as much as it can and gives
\* characters back one at a time while the rest does not match.
RECURSIVE MatchTail(_, _, _, _)
RECURSIVE TryLen(_, _, _, _, _, _)
TryLen(tail, k, content, pos, n, least) ==
    IF n < least THEN 0
    ELSE LET end == MatchTail(tail, k + 1, content, pos + n) IN
         IF end # 0 THEN end
         ELSE TryLen(tail, k, content, pos, n - 1, least)

MatchTail(tail, k, content, pos) ==
    IF k > Len(tail) THEN pos
    ELSE LET run   == RunLen(tail[k].cls, content, pos)
             most  == IF tail[k].q = "1" THEN Min(run, 1) ELSE run
             least == IF tail[k].q = "*" THEN 0 ELSE 1
         IN TryLen(tail, k, content, pos, most, least)

\* the word stands at pos, whatever the case of the letters
WordAt(word, content, pos) ==
    /\ pos + Len(word) - 1 <= Len(content)
    /\ \A i \in 1..Len(word) : LowerChar(content[pos + i - 1]) = LowerChar(word[i])

\* The pattern matched at pos: the alternatives are tried in order, each with
\* the tail after it; the position after the match, 0 when there is none.
RECURSIVE MatchAt(_, _, _, _)
MatchAt(pat, w, content, pos) ==
    IF w > Len(pat.words) THEN 0
    ELSE LET end == IF WordAt(pat.words[w], content, pos)
                    THEN MatchTail(pat.tail, 1, content, pos + Len(pat.words[w]))
                    ELSE 0
         IN IF end # 0 THEN end ELSE MatchAt(pat, w + 1, content, pos)

\* re.finditer: the matches from left to right, none overlapping another
RECURSIVE finditer(_, _, _)
finditer(pat, content, pos) ==
    IF pos > Len(content) THEN <<>>
    ELSE LET end == MatchAt(pat, 1, content, pos) IN
         IF end # 0
         THEN <<[start |-> pos, end |-> end]>> \o finditer(pat, content, end)
         ELSE finditer(pat, content, pos + 1)

\* content[:start].count('\n'), start being the 0-based offset of position pos
CountNewlines(content, pos) ==
    Cardinality({i \in 1..(pos - 1) : content[i] = "\n"})

\* (variant) the line number is left 0-based
line_num_zero_based(content, pos) == CountNewlines(content, pos)

\* line_num = content[:match.start()].count('\n') + 1
line_num(content, pos) == CountNewlines(content, pos) + 1

Severity(category) == IF category = "hardcoded_secrets" THEN "high" ELSE "medium"

\* the findings of one pattern, in the order of the matches, before the
\* file path is put into them
PatternFindings(content, pat) ==
    LET matches == finditer(pat, content, 1) IN
    [m \in 1..Len(matches) |->
        [line |-> line_num(content, matches[m].start),
         category |-> pat.category, severity |-> Severity(pat.category)]]

RECURSIVE ScanFrom(_, _)
ScanFrom(content, k) ==
    IF k > Len(security_patterns) THEN <<>>
    ELSE PatternFindings(content, security_patterns[k]) \o ScanFrom(content, k + 1)

(***************************************************************************)
(* What the environment can hand to review_file.                           *)
(***************************************************************************)
\* '\n'.join(lines)
RECURSIVE JoinLines(_)
JoinLines(lines) ==
    IF lines = <<>> THEN <<>>
    ELSE IF Len(lines) = 1 THEN Head(lines)
    ELSE Head(lines) \o <<"\n">> \o JoinLines(Tail(lines))

L_import == <<"i", "m", "p", "o", "r", "t", " ", "o", "s">>
L_assign == <<"x", " ", "=", " ", "1">>
L_secret_key == <<"S", "E", "C", "R", "E", "T", "_", "K", "E", "Y", " ", "=", " ", "\"", "a", "b", "c", "1", "2", "3", "\"">>

\* get_file_content: None when open() raised, else the text (possibly empty)
ContentNone == [ok |-> FALSE, text |-> <<>>]
ContentOf(text) == [ok |-> TRUE, text |-> text]

\* app.py after a change that adds `SECRET_KEY = "abc123"` as its second line
SecretContent == ContentOf(JoinLines(<<L_import, L_secret_key>>))

FileContents ==
    { ContentNone,
      ContentOf(<<>>),
      ContentOf(JoinLines(<<L_import, L_assign>>)),
      SecretContent }

L_password == <<"p", "a", "s", "s", "w", "o", "r", "d", " ", "=", " ", "\"", "x", "\"">>
L_open_quote == <<"p", "w", "d", " ", "=", " ", "'", "a">>
L_api_key == <<"A", "P", "I", "_", "K", "E", "Y", " ", "=", " ", "\"", "k", "\"">>
L_print == <<"p", "r", "i", "n", "t", "(", "\"", "h", "i", "\"", ")">>
L_sql == <<"c", "u", "r", "s", "o", "r", ".", "e", "x", "e", "c", "u", "t", "e", "(", "\"", "S", "E", "L", "E", "C", "T", " ", "%", "s", "\"", " ", "%", " ", "x", ")">>

\* the lines the scanned texts are made of
LinePool == {L_password, L_assign, L_open_quote, L_api_key, L_print, L_sql}

\* texts of one to MaxLines lines
ScanContents == {JoinLines(ls) : ls \in UNION {[1..n -> LinePool] : n \in 1..MaxLines}}

\* The scan of each text a reviewed file can hold, computed once: the findings
\* depend on the text alone, the file path is copied into each of them.
ScannedTexts == {c.text : c \in FileContents}

ScanTable == [content \in ScannedTexts |-> ScanFrom(content, 1)]

\* issues.append({'file': file_path, ...})
IssuesOf(file_path, found) ==
    [k \in 1..Len(found) |->
        [file |-> file_path, line |-> found[k].line,
         category |-> found[k].category, severity |-> found[k].severity]]

analyze_security_issues(file_path, content) ==
    IssuesOf(file_path, IF content \in ScannedTexts THEN ScanTable[content]
                        ELSE ScanFrom(content, 1))

\* analyze_security_issues called on its own
ScanInit ==
    /\ scan_content \in ScanContents
    /\ scan_findings = [called |-> FALSE, issues |-> <<>>]

Scan ==
    /\ ~scan_findings.called
    /\ scan_findings' = [called |-> TRUE,
                         issues |-> analyze_security_issues("app.py", scan_content)]
    /\ UNCHANGED scan_content

ScanIdle ==
    /\ scan_content = <<>>
    /\ scan_findings = [called |-> FALSE, issues |-> <<>>]

\* `if not content`
ContentFalsy(content) == ~content.ok \/ content.text = <<>>

\* get_file_diff: None when git printed nothing or subprocess raised
Diffs == {"", "@@ -1 +1,2 @@"}

\* model.generate_content(prompt): raises, or a response with .text
ResponseTexts ==
    { "Sure, here is my review",
      "[]",
      "{}",
      "{\"summary\": \"ok\", \"issues\": [], \"has_breaking_changes\": false, \"performance_impact\": \"neutral\"}",
      "{\"issues\": [{\"line\": 3, \"severity\": \"high\"}, {\"severity\": \"low\"}, {\"line\": -1, \"severity\": \"critical\"}], \"has_breaking_changes\": true, \"performance_impact\": \"negative\"}",
      "{\"summary\": \"ok\", \"issues\": 5}",
      "{\"issues\": [{\"line\": 1}, {\"line\": 2}, {\"line\": 3}, {\"line\": 4}, {\"line\": 5}, {\"line\": 6}]}" }

AiOutcomes ==
    {[raises |-> TRUE, text |-> ""]} \cup {[raises |-> FALSE, text |-> t] : t \in ResponseTexts}

\* json.loads(text): the value, or JSONDecodeError
JSONDecodeError == [t |-> "JSONDecodeError"]

json_loads(text) ==
    CASE text = "[]" -> JArr(<<>>)
      [] text = "{}" -> JObj(<<>>)
      [] text = "{\"summary\": \"ok\", \"issues\": [], \"has_breaking_changes\": false, \"performance_impact\": \"neutral\"}"
           -> JObj([summary |-> JStr("ok"), issues |-> JArr(<<>>),
                    has_breaking_changes |-> JBool(FALSE),
                    performance_impact |-> JStr("neutral")])
      [] text = "{\"issues\": [{\"line\": 3, \"severity\": \"high\"}, {\"severity\": \"low\"}, {\"line\": -1, \"severity\": \"critical\"}], \"has_breaking_changes\": true, \"performance_impact\": \"negative\"}"
           -> JObj([issues |-> JArr(<< JObj([line |-> JNum(3), severity |-> JStr("high")]),
                                        JObj([severity |-> JStr("low")]),
                                        JObj([line |-> JNum(-1), severity |-> JStr("critical")]) >>),
                    has_breaking_changes |-> JBool(TRUE),
                    performance_impact |-> JStr("negative")])
      [] text = "{\"summary\": \"ok\", \"issues\": 5}"
           -> JObj([summary |-> JStr("ok"), issues |-> JNum(5)])
      [] text = "{\"issues\": [{\"line\": 1}, {\"line\": 2}, {\"line\": 3}, {\"line\": 4}, {\"line\": 5}, {\"line\": 6}]}"
           -> JObj([issues |-> JArr([k \in 1..6 |-> JObj([line |-> JNum(k)])])])
      [] OTHER -> JSONDecodeError

(***************************************************************************)
(* review_file                                                             *)
(***************************************************************************)
ErrorResult(file_path, msg) == [file |-> JStr(file_path), error |-> JStr(msg)]

\* str(e) of the TypeError that `review_data["file"] = file_path` raises when
\* review_data is not a dict
ItemAssignmentError(x) ==
    CASE x.t = "arr"  -> "list indices must be integers or slices, not str"
      [] x.t = "str"  -> "'str' object does not support item assignment"
      [] x.t = "num"  -> "'int' object does not support item assignment"
      [] x.t = "bool" -> "'bool' object does not support item assignment"
      [] x.t = "null" -> "'NoneType' object does not support item assignment"

\* (variant) JSONDecodeError is not caught on its own and lands in the
\* generic `except Exception` handler
review_ai_generic_except(file_path, sec, ai) ==
    IF ai.raises THEN ErrorResult(file_path, "generate_content failed")
    ELSE LET review_data == json_loads(ai.text) IN
         IF review_data = JSONDecodeError
         THEN ErrorResult(file_path, "Expecting value: line 1 column 1 (char 0)")
         ELSE IF review_data.t # "obj"
         THEN ErrorResult(file_path, ItemAssignmentError(review_data))
         ELSE PySet(PySet(review_data.v, "file", JStr(file_path)),
                    "security_issues", JArr(sec))

\* The try block of review_file: the call to the model and what is made of its
\* answer. `sec` are the findings already added to self.security_issues.
review_ai(file_path, sec, ai) ==
    IF ai.raises THEN ErrorResult(file_path, "generate_content failed")
    ELSE LET review_data == json_loads(ai.text) IN
         IF review_data = JSONDecodeError
         THEN [file |-> JStr(file_path),
               error |-> JStr("Failed to parse AI response"),
               raw_response |-> JStr(ai.text)]
         ELSE IF review_data.t # "obj"
         THEN ErrorResult(file_path, ItemAssignmentError(review_data))
         ELSE PySet(PySet(review_data.v, "file", JStr(file_path)),
                    "security_issues", JArr(sec))

\* (variant) a review that ended in an error is tried a second time
review_file_retry(file_path, content, diff, ai) ==
    IF ContentFalsy(content)
    THEN [result |-> ErrorResult(file_path, "Could not read file"),
          findings |-> <<>>, calls |-> 0]
    ELSE IF diff = ""
    THEN [result |-> ErrorResult(file_path, "No changes detected"),
          findings |-> <<>>, calls |-> 0]
    ELSE LET sec == analyze_security_issues(file_path, content.text)
             res == review_ai(file_path, sec, ai) IN
         [result |-> res, findings |-> sec,
          calls |-> IF "error" \in DOMAIN res THEN 2 ELSE 1]

\* review_file(file_path) with the content, the diff and the model's behaviour
\* it meets: its return value, the findings it appends to
\* self.security_issues and the number of generate_content calls it makes.
\* (variant) the scan is made before the diff is looked at
review_file_scan_first(file_path, content, diff, ai) ==
    IF ContentFalsy(content)
    THEN [result |-> ErrorResult(file_path, "Could not read file"),
          findings |-> <<>>, calls |-> 0]
    ELSE IF diff = ""
    THEN [result |-> ErrorResult(file_path, "No changes detected"),
          findings |-> analyze_security_issues(file_path, content.text), calls |-> 0]
    ELSE LET sec == analyze_security_issues(file_path, content.text) IN
         [result |-> review_ai(file_path, sec, ai), findings |-> sec, calls |-> 1]

review_file(file_path, content, diff, ai) ==
    IF ContentFalsy(content)
    THEN [result |-> ErrorResult(file_path, "Could not read file"),
          findings |-> <<>>, calls |-> 0]
    ELSE IF diff = ""
    THEN [result |-> ErrorResult(file_path, "No changes detected"),
          findings |-> <<>>, calls |-> 0]
    ELSE LET sec == analyze_security_issues(file_path, content.text) IN
         [result |-> review_ai(file_path, sec, ai), findings |-> sec, calls |-> 1]

(***************************************************************************)
(* Aggregation: create_summary_comment, determine_tags, save_results       *)
(***************************************************************************)
Issues(r) == PyGet(r, "issues", JArr(<<>>))

\* sum(len(r.get('issues', [])) for r in reviews) raises
TotalIssuesRaises(reviews) == \E i \in 1..Len(reviews) : LenRaises(Issues(reviews[i]))

total_issues(reviews) == SumSeq([i \in 1..Len(reviews) |-> PyLen(Issues(reviews[i]))])

\* sum(1 for r in reviews for issue in r.get('issues', [])
\*     if issue.get('severity') == 'high') raises
HighSeverityRaises(reviews) == \E i \in 1..Len(reviews) : IterGetRaises(Issues(reviews[i]))

IsHigh(issue) == PyGet(issue.v, "severity", JNull) = JStr("high")

HighCount(issues) == Cardinality({k \in 1..Len(issues.v) : IsHigh(issues.v[k])})

high_severity(reviews) ==
    SumSeq([i \in 1..Len(reviews) |->
              IF Issues(reviews[i]).t = "arr" THEN HighCount(Issues(reviews[i])) ELSE 0])

\* the per-file part of the comment; raises on values that cannot be sliced or
\* hashed
SectionRaises(review) ==
    /\ "error" \notin DOMAIN review
    /\ \/ /\ Truthy(Issues(review))
          /\ \/ Issues(review).t # "arr"
             \/ \E k \in 1..Len(Issues(review).v) :
                   PyGet(Issues(review).v[k].v, "severity", JStr("low")).t \in {"arr", "obj"}
       \/ /\ Truthy(PyGet(review, "positive_aspects", JArr(<<>>)))
          /\ PyGet(review, "positive_aspects", JArr(<<>>)).t \notin {"arr", "str"}

\* (variant) every issue is shown, the count of the rest is that of the
\* issues beyond the fifth
Section_unbounded(review) ==
    IF "error" \in DOMAIN review
    THEN [file |-> review["file"], error |-> review["error"]]
    ELSE LET issues == Issues(review).v IN
         [file |-> review["file"],
          shown |-> issues,
          more |-> IF Len(issues) > 5 THEN Len(issues) - 5 ELSE 0]

\* the per-file part of the comment: the issues listed and the N of the
\* "... and N more issues" line (0: no such line)
Section(review) ==
    IF "error" \in DOMAIN review
    THEN [file |-> review["file"], error |-> review["error"]]
    ELSE LET issues == Issues(review).v IN
         [file |-> review["file"],
          shown |-> SubSeq(issues, 1, Min(Len(issues), 5)),
          more |-> IF Len(issues) > 5 THEN Len(issues) - 5 ELSE 0]

create_summary_comment(reviews, sec) ==
    IF \/ TotalIssuesRaises(reviews)
       \/ HighSeverityRaises(reviews)
       \/ \E i \in 1..Len(reviews) : SectionRaises(reviews[i])
    THEN [raised |-> TRUE]
    ELSE [raised |-> FALSE,
          total_files |-> Len(reviews),
          total_issues |-> total_issues(reviews),
          high_severity |-> high_severity(reviews),
          security_count |-> Len(sec),
          sections |-> [i \in 1..Len(reviews) |-> Section(reviews[i])]]

\* what determine_tags reads off a path: the endswith chain and the
\* substring tests on file_path.lower()
PathTags(p) ==
    CASE p = "app.py"        -> {"python"}
      [] p = "test_api.js"   -> {"javascript", "testing", "api"}
      [] p = "auth/login.ts" -> {"javascript", "security"}
      [] p = "README.md"     -> {"documentation"}
      [] p = "big.py"        -> {"python"}
      [] p = "lib.min.js"    -> {"javascript"}

\* every tag determine_tags can add, in the order sorted() gives
SortedTags ==
    << "api", "breaking-change", "config", "database", "documentation", "frontend",
       "java", "javascript", "performance", "python", "security",
       "security-review-needed", "testing" >>

RECURSIVE SortedFrom(_, _)
SortedFrom(tags, k) ==
    IF k > Len(SortedTags) THEN <<>>
    ELSE (IF SortedTags[k] \in tags THEN <<SortedTags[k]>> ELSE <<>>)
         \o SortedFrom(tags, k + 1)

AnyTruthy(reviews, key) ==
    \E i \in 1..Len(reviews) : Truthy(PyGet(reviews[i], key, JNull))

determine_tags(file_changes, reviews, sec) ==
    LET tags == UNION {PathTags(file_changes[i]["file"].v) : i \in 1..Len(file_changes)}
                \cup (IF AnyTruthy(reviews, "has_breaking_changes")
                      THEN {"breaking-change"} ELSE {})
                \cup (IF AnyTruthy(reviews, "performance_impact")
                      THEN {"performance"} ELSE {})
                \cup (IF sec # <<>> THEN {"security-review-needed"} ELSE {})
    IN SortedFrom(tags, 1)

\* (variant) only the security findings decide the status
overall_status_security_only(reviews, sec) ==
    IF sec # <<>> THEN "needs_attention" ELSE "approved"

overall_status(reviews, sec) ==
    IF sec # <<>> \/ AnyTruthy(reviews, "has_breaking_changes")
    THEN "needs_attention" ELSE "approved"

\* save_results: the status dict is built before any file is opened, so a
\* fault in it leaves nothing written
save_results(reviews, sec) ==
    IF TotalIssuesRaises(reviews) \/ HighSeverityRaises(reviews)
    THEN [raised |-> TRUE]
    ELSE [raised |-> FALSE,
          files |->
            [ai_review_status |->
                [total_files |-> Len(reviews),
                 total_issues |-> total_issues(reviews),
                 high_severity_issues |-> high_severity(reviews),
                 security_issues |-> Len(sec),
                 overall_status |-> overall_status(reviews, sec)],
             review_summary |-> reviews,
             security_issues |-> sec,
             ai_tags |-> determine_tags(reviews, reviews, sec)]]

(***************************************************************************)
(* SmartCodeReviewer: __init__ and run                                     *)
(***************************************************************************)
\* `git diff --name-only` prints each changed path once, in path order
PathOrder == <<"README.md", "app.py", "auth/login.ts", "big.py", "lib.min.js",
               "test_api.js">>

RECURSIVE InPathOrder(_, _)
InPathOrder(S, k) ==
    IF k > Len(PathOrder) THEN <<>>
    ELSE (IF PathOrder[k] \in S THEN <<PathOrder[k]>> ELSE <<>>)
         \o InPathOrder(S, k + 1)

GitOutputs == {InPathOrder(S, 1) : S \in {T \in SUBSET Paths : Cardinality(T) <= MaxFiles}}

ReviewerInit ==
    /\ pc = "init"
    /\ cfg \in [llm_key : BOOLEAN, gitlab_token : BOOLEAN, mr_iid : BOOLEAN]
    /\ git_files \in GitOutputs
    /\ changed_files = <<>>
    /\ idx = 1
    /\ review_results = <<>>
    /\ security_issues = <<>>
    /\ llm_calls = <<>>
    /\ ai_log = <<>>
    /\ notes = <<>>
    /\ artifacts = <<>>
    /\ run_no = 1

\* __init__: sys.exit(1) without LLM_API_KEY
Construct_unchecked ==
    /\ pc = "init"
    /\ pc' = "start"
    /\ UNCHANGED <<cfg, git_files, changed_files, idx, review_results,
                   security_issues, llm_calls, ai_log, notes, artifacts>>

Construct ==
    /\ pc = "init"
    /\ pc' = IF cfg.llm_key THEN "start" ELSE "exit1"
    /\ UNCHANGED <<cfg, git_files, changed_files, idx, review_results,
                   security_issues, llm_calls, ai_log, notes, artifacts>>

\* run(): get_changed_files and the early return
RunGetChangedFiles ==
    /\ pc = "start"
    /\ \E git_ok \in BOOLEAN :
          /\ changed_files' = get_changed_files(git_files, git_ok)
          /\ pc' = IF changed_files' = <<>> THEN "returned" ELSE "loop"
    /\ UNCHANGED <<cfg, git_files, idx, review_results, security_issues,
                   llm_calls, ai_log, notes, artifacts>>

\* (variant) the result is put in front of the list
run_step_prepend(r, content, diff, ai) ==
    /\ review_results' = <<r.result>> \o review_results
    /\ security_issues' = security_issues \o r.findings
    /\ llm_calls' = llm_calls \o [k \in 1..r.calls |-> idx]
    /\ idx' = idx + 1
    /\ ai_log' = Append(ai_log,
                        IF r.calls > 0
                        THEN [called |-> TRUE, raises |-> ai.raises,
                              text |-> ai.text, content |-> content.text,
                              has_content |-> TRUE, has_diff |-> TRUE]
                        ELSE [called |-> FALSE, raises |-> FALSE,
                              text |-> "", content |-> <<>>,
                              has_content |-> ~ContentFalsy(content),
                              has_diff |-> diff # ""])
    /\ pc' = IF idx + 1 > Len(changed_files) THEN "post" ELSE "loop"

\* one pass of the loop of run(), r being what review_file returned
run_step(r, content, diff, ai) ==
    /\ review_results' = Append(review_results, r.result)
    /\ security_issues' = security_issues \o r.findings
    /\ llm_calls' = llm_calls \o [k \in 1..r.calls |-> idx]
    /\ idx' = idx + 1
    /\ ai_log' = Append(ai_log,
                        IF r.calls > 0
                        THEN [called |-> TRUE, raises |-> ai.raises,
                              text |-> ai.text, content |-> content.text,
                              has_content |-> TRUE, has_diff |-> TRUE]
                        ELSE [called |-> FALSE, raises |-> FALSE,
                              text |-> "", content |-> <<>>,
                              has_content |-> ~ContentFalsy(content),
                              has_diff |-> diff # ""])
    /\ pc' = IF idx + 1 > Len(changed_files) THEN "post" ELSE "loop"

\* one iteration of `for file_path in changed_files`
RunReviewFile ==
    /\ pc = "loop"
    /\ idx <= Len(changed_files)
    /\ \E content \in FileContents, diff \in Diffs, ai \in AiOutcomes :
          run_step(review_file(changed_files[idx], content, diff, ai), content, diff, ai)
    /\ UNCHANGED <<cfg, git_files, changed_files, notes, artifacts>>

\* post_review_comment: what the run does with the comment; posted = TRUE
\* when requests.post is reached
post_review_comment(reviews, sec, conf) ==
    IF ~conf.gitlab_token \/ ~conf.mr_iid
    THEN [raised |-> FALSE, posted |-> FALSE]
    ELSE LET summary == create_summary_comment(reviews, sec) IN
         IF summary.raised THEN [raised |-> TRUE, posted |-> FALSE]
         ELSE [raised |-> FALSE, posted |-> TRUE, body |-> summary]

\* requests.post answers 201, another status, or raises
PostOutcomes == {"201", "500", "exception"}

\* (variant) an exception of requests.post is not caught and ends the run
RunPostReviewComment_uncaught ==
    /\ pc = "post"
    /\ LET p == IF review_results # <<>>
                THEN post_review_comment(review_results, security_issues, cfg)
                ELSE [raised |-> FALSE, posted |-> FALSE] IN
       IF p.raised
       THEN /\ pc' = "crashed"
            /\ notes' = notes
       ELSE IF p.posted
            THEN \E o \in PostOutcomes :
                    /\ notes' = Append(notes, [run |-> run_no, body |-> p.body,
                                              outcome |-> o])
                    /\ pc' = IF o = "exception" THEN "crashed" ELSE "save"
            ELSE /\ notes' = notes
                 /\ pc' = "save"
    /\ UNCHANGED <<cfg, git_files, changed_files, idx, review_results,
                   security_issues, llm_calls, ai_log, artifacts>>

RunPostReviewComment ==
    /\ pc = "post"
    /\ LET p == IF review_results # <<>>
                THEN post_review_comment(review_results, security_issues, cfg)
                ELSE [raised |-> FALSE, posted |-> FALSE] IN
       IF p.raised
       THEN /\ pc' = "crashed"
            /\ notes' = notes
       ELSE /\ pc' = "save"
            /\ IF p.posted
               THEN \E o \in PostOutcomes :
                      notes' = Append(notes, [run |-> run_no, body |-> p.body,
                                              outcome |-> o])
               ELSE notes' = notes
    /\ UNCHANGED <<cfg, git_files, changed_files, idx, review_results,
                   security_issues, llm_calls, ai_log, artifacts>>

RunSaveResults ==
    /\ pc = "save"
    /\ LET s == save_results(review_results, security_issues) IN
       IF s.raised
       THEN /\ pc' = "crashed"
            /\ artifacts' = artifacts
       ELSE /\ pc' = "done"
            /\ artifacts' = s.files
    /\ UNCHANGED <<cfg, git_files, changed_files, idx, review_results,
                   security_issues, llm_calls, ai_log, notes>>

ReviewerNext ==
    /\ \/ Construct
       \/ RunGetChangedFiles
       \/ RunReviewFile
       \/ RunPostReviewComment
       \/ RunSaveResults
    /\ UNCHANGED run_no

\* The job is triggered again for the same merge request: a new process in a
\* new workspace, the notes already on the merge request stay.
Rerun ==
    /\ pc \in {"done", "returned", "crashed", "exit1"}
    /\ run_no < MaxRuns
    /\ run_no' = run_no + 1
    /\ pc' = "init"
    /\ changed_files' = <<>>
    /\ idx' = 1
    /\ review_results' = <<>>
    /\ security_issues' = <<>>
    /\ llm_calls' = <<>>
    /\ ai_log' = <<>>
    /\ artifacts' = <<>>
    /\ UNCHANGED <<cfg, git_files, notes>>

\* runs of the job on a merge request that changes at most one file
RunsInit == ReviewerInit /\ Len(git_files) <= 1

RunsNext == ReviewerNext \/ Rerun

(***************************************************************************)
(* IntelligentTagger (tag_mr.py)                                           *)
(***************************************************************************)
MaxAiTags == 1
MaxEnsureCalls == 3

Missing == [present |-> FALSE]
FileOf(x) == [present |-> TRUE, data |-> x]

Range(s) == {s[i] : i \in 1..Len(s)}

\* tag.strip()
Strip(line) == IF line = " " THEN "" ELSE line

\* [tag.strip() for tag in f.readlines() if tag.strip()]
RECURSIVE StripLines(_)
StripLines(lines) ==
    IF lines = <<>> THEN <<>>
    ELSE (IF Strip(Head(lines)) # "" THEN <<Strip(Head(lines))>> ELSE <<>>)
         \o StripLines(Tail(lines))

load_ai_tags(file) == IF file.present THEN StripLines(file.data) ELSE <<>>

\* the status dict, {} when the file is missing
load_review_status(file) == IF file.present THEN file.data ELSE <<>>

determine_label_colors ==
    { <<"python", "#3776ab">>, <<"javascript", "#f7df1e">>, <<"typescript", "#3178c6">>,
      <<"java", "#ed8b00">>, <<"go", "#00add8">>, <<"rust", "#000000">>,
      <<"frontend", "#61dafb">>, <<"backend", "#8cc84b">>, <<"api", "#ff6600">>,
      <<"database", "#336791">>, <<"security", "#dc3545">>, <<"performance", "#28a745">>,
      <<"testing", "#6f42c1">>, <<"documentation", "#6c757d">>, <<"config", "#ffc107">>,
      <<"breaking-change", "#dc3545">>, <<"security-review-needed", "#fd7e14">>,
      <<"needs-testing", "#20c997">>, <<"ready-for-review", "#28a745">>,
      <<"ai-reviewed", "#17a2b8">>, <<"high-priority", "#dc3545">>,
      <<"low-priority", "#6c757d">> }

\* label_colors.get(tag, '#1f77b4')
LabelColor(tag) ==
    IF \E e \in determine_label_colors : e[1] = tag
    THEN (CHOOSE e \in determine_label_colors : e[1] = tag)[2]
    ELSE "#1f77b4"

\* (variant) `elif total_issues == 0` written as a plain `else`
enhanced_tags_else(ai_tags, review_status) ==
    LET total == PyGet(review_status, "total_issues", 0) IN
    ai_tags
    \o (IF PyGet(review_status, "security_issues", 0) > 0
        THEN <<"security-review-needed">> ELSE <<>>)
    \o (IF PyGet(review_status, "high_severity_issues", 0) > 0
        THEN <<"high-priority">>
        ELSE <<"ready-for-review">>)
    \o <<"ai-reviewed">>
    \o (IF total > 10 THEN <<"needs-attention">>
        ELSE IF total = 0 THEN <<"clean-code">> ELSE <<>>)

\* enhanced_tags as the appends leave it, before list(set(...))
enhanced_tags(ai_tags, review_status) ==
    LET total == PyGet(review_status, "total_issues", 0) IN
    ai_tags
    \o (IF PyGet(review_status, "security_issues", 0) > 0
        THEN <<"security-review-needed">> ELSE <<>>)
    \o (IF PyGet(review_status, "high_severity_issues", 0) > 0
        THEN <<"high-priority">>
        ELSE IF total = 0 THEN <<"ready-for-review">> ELSE <<>>)
    \o <<"ai-reviewed">>
    \o (IF total > 10 THEN <<"needs-attention">>
        ELSE IF total = 0 THEN <<"clean-code">> ELSE <<>>)

\* list(set(x)): the elements of x once each, in an order that the hash seed
\* of the process decides
ListsOfSet(S) ==
    {s \in [1..Cardinality(S) -> S] : \A i, j \in 1..Cardinality(S) : i # j => s[i] # s[j]}

enhance_tags_with_context(ai_tags, review_status) ==
    ListsOfSet(Range(enhanced_tags(ai_tags, review_status)))

\* get_existing_labels: the names the GET returned, [] on any failure
get_existing_labels(host, lookup_ok) == IF lookup_ok THEN host ELSE {}

\* create_label_if_needed against a project whose labels are `host`:
\* lookup_ok says whether the GET answered 200, create_ok whether the host is
\* able to serve the POST; a POST for a name the project already has is
\* answered 409. Gives the return value, the project's labels afterwards and
\* the POST requests made.
create_label_if_needed(host, label_name, color, lookup_ok, create_ok) ==
    IF label_name \in get_existing_labels(host, lookup_ok)
    THEN [result |-> TRUE, host |-> host, posts |-> <<>>]
    ELSE LET req == [name |-> label_name, color |-> color] IN
         IF label_name \notin host /\ create_ok
         THEN [result |-> TRUE, host |-> host \cup {label_name}, posts |-> <<req>>]
         ELSE [result |-> FALSE, host |-> host, posts |-> <<req>>]

\* ",".join(labels)
RECURSIVE JoinComma(_)
JoinComma(labels) ==
    IF labels = <<>> THEN <<>>
    ELSE IF Len(labels) = 1 THEN labels
    ELSE <<Head(labels), ",">> \o JoinComma(Tail(labels))

\* the host reads a comma-separated list of names
SplitComma(value) == {value[i] : i \in {k \in 1..Len(value) : value[k] # ","}}

\* (variant) the labels are sent to be added to the ones the request has
apply_request_add(labels) == [method |-> "PUT", field |-> "add_labels", value |-> JoinComma(labels)]

\* apply_labels_to_mr: the request body
apply_request(labels) == [method |-> "PUT", field |-> "labels", value |-> JoinComma(labels)]

\* the host's handling of a served PUT on the merge request
HostUpdateMr(mr, req) ==
    CASE req.field = "labels"     -> SplitComma(req.value)
      [] req.field = "add_labels" -> mr \cup SplitComma(req.value)
      [] OTHER                    -> mr

\* (variant) every tag is kept, whatever create_label_if_needed returned
keep_label_always(created, tag, ok) == Append(created, tag)

\* `if self.create_label_if_needed(tag, color): created_labels.append(tag)`
keep_label(created, tag, ok) == IF ok THEN Append(created, tag) ELSE created

AiTagPool == {"python", "api", "security-review-needed"}
AiTagOrder == <<"api", "python", "security-review-needed">>

AiTagFiles ==
    {Missing, FileOf(<<>>), FileOf(<<" ">>)}
    \cup {FileOf(s) : s \in {q \in UNION {[1..n -> AiTagPool] : n \in 1..MaxAiTags} :
                               \A i, j \in 1..Len(q) : i < j =>
                                  \E a, b \in 1..Len(AiTagOrder) :
                                     a < b /\ AiTagOrder[a] = q[i] /\ AiTagOrder[b] = q[j]}}

StatusFiles ==
    {Missing,
     FileOf([total_files |-> 1, total_issues |-> 2, high_severity_issues |-> 1,
             security_issues |-> 1, overall_status |-> "needs_attention"]),
     FileOf([total_files |-> 2, total_issues |-> 11, high_severity_issues |-> 0,
             security_issues |-> 0, overall_status |-> "approved"])}

MrLabels0 == {"wip"}

TaggerInit ==
    /\ t_pc = "init"
    /\ t_cfg \in [gitlab_token : BOOLEAN, project_id : BOOLEAN, mr_iid : BOOLEAN]
    /\ ai_tags_file \in AiTagFiles
    /\ status_file \in StatusFiles
    /\ final_tags = <<>>
    /\ t_idx = 1
    /\ created_labels = <<>>
    /\ host_labels \in {{}, {"python", "ai-reviewed"}}
    /\ mr_labels = MrLabels0
    /\ ensure_log = <<>>
    /\ apply_log = <<>>
    /\ applied_tags_file = Missing

\* __init__: sys.exit(1) unless token, project id and MR iid are all set
TaggerConstruct ==
    /\ t_pc = "init"
    /\ t_pc' = IF t_cfg.gitlab_token /\ t_cfg.project_id /\ t_cfg.mr_iid
               THEN "load" ELSE "exit1"
    /\ UNCHANGED <<t_cfg, ai_tags_file, status_file, final_tags, t_idx,
                   created_labels, host_labels, mr_labels, ensure_log, apply_log,
                   applied_tags_file>>

\* (variant) the run goes on with an empty tag list
TaggerLoad_no_return ==
    /\ t_pc = "load"
    /\ LET ai_tags == load_ai_tags(ai_tags_file)
           review_status == load_review_status(status_file) IN
       IF FALSE
       THEN /\ t_pc' = "returned"
            /\ final_tags' = final_tags
       ELSE /\ t_pc' = "ensure"
            /\ final_tags' \in enhance_tags_with_context(ai_tags, review_status)
    /\ UNCHANGED <<t_cfg, ai_tags_file, status_file, t_idx, created_labels,
                   host_labels, mr_labels, ensure_log, apply_log, applied_tags_file>>

\* run(): load the two files, return when there is no tag, else enhance
TaggerLoad ==
    /\ t_pc = "load"
    /\ LET ai_tags == load_ai_tags(ai_tags_file)
           review_status == load_review_status(status_file) IN
       IF ai_tags = <<>>
       THEN /\ t_pc' = "returned"
            /\ final_tags' = final_tags
       ELSE /\ t_pc' = "ensure"
            /\ final_tags' \in enhance_tags_with_context(ai_tags, review_status)
    /\ UNCHANGED <<t_cfg, ai_tags_file, status_file, t_idx, created_labels,
                   host_labels, mr_labels, ensure_log, apply_log, applied_tags_file>>

EnsureEntry(host, label_name, r) ==
    [name |-> label_name, existed |-> label_name \in host,
     posts |-> r.posts, result |-> r.result]

\* one iteration of `for tag in final_tags`
TaggerEnsure ==
    /\ t_pc = "ensure"
    /\ t_idx <= Len(final_tags)
    /\ \E lookup_ok \in BOOLEAN, create_ok \in BOOLEAN :
          LET tag == final_tags[t_idx]
              r == create_label_if_needed(host_labels, tag, LabelColor(tag),
                                          lookup_ok, create_ok) IN
          /\ created_labels' = keep_label(created_labels, tag, r.result)
          /\ host_labels' = r.host
          /\ ensure_log' = Append(ensure_log, EnsureEntry(host_labels, tag, r))
    /\ t_idx' = t_idx + 1
    /\ t_pc' = IF t_idx = Len(final_tags) THEN "apply" ELSE "ensure"
    /\ UNCHANGED <<t_cfg, ai_tags_file, status_file, final_tags, mr_labels,
                   apply_log, applied_tags_file>>

\* run(): `if created_labels:` apply them and write applied_tags.json
TaggerApply ==
    /\ t_pc = "apply"
    /\ IF created_labels # <<>>
       THEN \E served \in BOOLEAN :
               LET req == apply_request(created_labels) IN
               /\ mr_labels' = IF served THEN HostUpdateMr(mr_labels, req) ELSE mr_labels
               /\ apply_log' = Append(apply_log, [req |-> req, success |-> served])
               /\ applied_tags_file' =
                     FileOf([applied_tags |-> created_labels, success |-> served,
                             review_summary |-> load_review_status(status_file)])
       ELSE UNCHANGED <<mr_labels, apply_log, applied_tags_file>>
    /\ t_pc' = "done"
    /\ UNCHANGED <<t_cfg, ai_tags_file, status_file, final_tags, t_idx,
                   created_labels, host_labels, ensure_log>>

TaggerNext ==
    \/ TaggerConstruct
    \/ TaggerLoad
    \/ TaggerEnsure
    \/ TaggerApply

\* create_label_if_needed called on its own, any number of times
EnsureInit ==
    /\ t_pc = "ensure-only"
    /\ t_cfg = [gitlab_token |-> TRUE, project_id |-> TRUE, mr_iid |-> TRUE]
    /\ ai_tags_file = Missing
    /\ status_file = Missing
    /\ final_tags = <<>>
    /\ t_idx = 1
    /\ created_labels = <<>>
    /\ host_labels \in SUBSET AiTagPool
    /\ mr_labels = MrLabels0
    /\ ensure_log = <<>>
    /\ apply_log = <<>>
    /\ applied_tags_file = Missing

EnsureCall ==
    /\ t_pc = "ensure-only"
    /\ Len(ensure_log) < MaxEnsureCalls
    /\ \E tag \in AiTagPool, lookup_ok \in BOOLEAN, create_ok \in BOOLEAN :
          LET r == create_label_if_needed(host_labels, tag, LabelColor(tag),
                                          lookup_ok, create_ok) IN
          /\ host_labels' = r.host
          /\ ensure_log' = Append(ensure_log, EnsureEntry(host_labels, tag, r))
    /\ UNCHANGED <<t_pc, t_cfg, ai_tags_file, status_file, final_tags, t_idx,
                   created_labels, mr_labels, apply_log, applied_tags_file>>

TaggerIdle ==
    /\ t_pc = "idle"
    /\ t_cfg = [gitlab_token |-> TRUE, project_id |-> TRUE, mr_iid |-> TRUE]
    /\ ai_tags_file = Missing
    /\ status_file = Missing
    /\ final_tags = <<>>
    /\ t_idx = 1
    /\ created_labels = <<>>
    /\ host_labels = {}
    /\ mr_labels = MrLabels0
    /\ ensure_log = <<>>
    /\ apply_log = <<>>
    /\ applied_tags_file = Missing

ReviewerIdle ==
    /\ pc = "idle"
    /\ cfg = [llm_key |-> TRUE, gitlab_token |-> TRUE, mr_iid |-> TRUE]
    /\ git_files = <<>>
    /\ changed_files = <<>>
    /\ idx = 1
    /\ review_results = <<>>
    /\ security_issues = <<>>
    /\ llm_calls = <<>>
    /\ ai_log = <<>>
    /\ notes = <<>>
    /\ artifacts = <<>>
    /\ run_no = 1

(***************************************************************************)
(* The single-call review script (scripts/review_pr.py)                    *)
(***************************************************************************)
\* the text of the first candidate of the LLM's answer, as json.loads reads
\* it: not JSON, or a value
ScriptResponses ==
    { JSONDecodeError,
      JNum(5),
      JObj([pr_summary |-> JStr("ok")]),
      JArr(<<>>),
      JArr(<< JObj([file |-> JStr("app.py"), line |-> JNum(3)]),
              JStr("rename x"),
              JObj([file |-> JStr("app.py")]),
              JObj([file |-> JStr("b.py"), line |-> JNum(7)]) >>) }

\* what `for suggestion in ai_response` goes through: the items of a list,
\* the keys of a dict (the characters of a string, each skipped by the
\* isinstance test, are left out)
Suggestions(v) ==
    IF v.t = "arr" THEN v.v
    ELSE IF v.t = "str" THEN <<>>
    ELSE LET keys == CHOOSE q \in [1..Cardinality(DOMAIN v.v) -> DOMAIN v.v] :
                        \A i, j \in DOMAIN q : i # j => q[i] # q[j]
         IN [i \in DOMAIN keys |-> JStr(keys[i])]

ScriptInit ==
    /\ s_pc = "init"
    /\ s_cfg \in [llm_key : BOOLEAN, gitlab_pat : BOOLEAN, project_id : BOOLEAN,
                  mr_iid : BOOLEAN]
    /\ s_response = JNull
    /\ s_idx = 1
    /\ s_requests = <<>>

\* module level: sys.exit(1) unless the four variables are all set
ScriptConfig ==
    /\ s_pc = "init"
    /\ s_pc' = IF s_cfg.llm_key /\ s_cfg.gitlab_pat /\ s_cfg.project_id /\ s_cfg.mr_iid
               THEN "changes" ELSE "exit1"
    /\ UNCHANGED <<s_cfg, s_response, s_idx, s_requests>>

\* get_mr_changes, then get_mr_description: raise_for_status raises on an
\* error status and main's except exits with 1
ScriptFetch ==
    /\ s_pc \in {"changes", "description"}
    /\ \E ok \in BOOLEAN :
          /\ s_requests' = Append(s_requests, [req |-> "GET " \o s_pc, ok |-> ok])
          /\ s_pc' = IF ~ok THEN "exit1"
                     ELSE IF s_pc = "changes" THEN "description" ELSE "llm"
    /\ UNCHANGED <<s_cfg, s_response, s_idx>>

\* call_llm: one POST; an error status raises, an answer that is not JSON
\* exits with 1
ScriptCallLlm ==
    /\ s_pc = "llm"
    /\ \E ok \in BOOLEAN, v \in ScriptResponses :
          /\ s_requests' = Append(s_requests, [req |-> "POST llm", ok |-> ok])
          /\ IF ok /\ v # JSONDecodeError
             THEN s_pc' = "inline" /\ s_response' = v
             ELSE s_pc' = "exit1" /\ s_response' = s_response
    /\ UNCHANGED <<s_cfg, s_idx>>

\* one iteration of `for suggestion in ai_response`, or its end; iterating a
\* number raises TypeError, which main's except turns into exit 1, and so
\* does an exception of the POST in post_inline_comment
ScriptInline ==
    /\ s_pc = "inline"
    /\ IF s_response.t \in {"num", "bool", "null"}
       THEN s_pc' = "exit1" /\ UNCHANGED <<s_idx, s_requests>>
       ELSE IF s_idx > Len(Suggestions(s_response))
       THEN s_pc' = "summary" /\ UNCHANGED <<s_idx, s_requests>>
       ELSE LET suggestion == Suggestions(s_response)[s_idx] IN
            IF /\ suggestion.t = "obj"
               /\ Truthy(PyGet(suggestion.v, "file", JNull))
               /\ Truthy(PyGet(suggestion.v, "line", JNull))
            THEN \E o \in {"ok", "not ok", "exception"} :
                    /\ s_requests' = Append(s_requests,
                                            [req |-> "POST discussion", ok |-> o = "ok",
                                             item |-> s_idx])
                    /\ s_pc' = IF o = "exception" THEN "exit1" ELSE "inline"
                    /\ s_idx' = s_idx + 1
            ELSE /\ s_idx' = s_idx + 1
                 /\ UNCHANGED <<s_pc, s_requests>>
    /\ UNCHANGED <<s_cfg, s_response>>

\* the summary note: its status is not looked at, an exception exits with 1
ScriptSummary ==
    /\ s_pc = "summary"
    /\ \E o \in {"ok", "not ok", "exception"} :
          /\ s_requests' = Append(s_requests, [req |-> "POST note", ok |-> o = "ok"])
          /\ s_pc' = IF o = "exception" THEN "exit1" ELSE "done"
    /\ UNCHANGED <<s_cfg, s_response, s_idx>>

ScriptNext ==
    \/ ScriptConfig
    \/ ScriptFetch
    \/ ScriptCallLlm
    \/ ScriptInline
    \/ ScriptSummary

ScriptIdle ==
    /\ s_pc = "idle"
    /\ s_cfg = [llm_key |-> TRUE, gitlab_pat |-> TRUE, project_id |-> TRUE,
                mr_iid |-> TRUE]
    /\ s_response = JNull
    /\ s_idx = 1
    /\ s_requests = <<>>

(***************************************************************************)
(* ChangelogGenerator.categorize_changes (generate_changelog.py)           *)
(* Text is a sequence of characters, so that .lower(), `in`, startswith    *)
(* and endswith are computed on it.                                        *)
(***************************************************************************)
MaxLabels == 2

\* the keyword lists of the six title/commit-message checks
BreakingWords == { <<"b", "r", "e", "a", "k">>,
                   <<"b", "r", "e", "a", "k", "i", "n", "g">>,
                   <<"m", "a", "j", "o", "r">> }
FeatureWords == { <<"f", "e", "a", "t">>,
                  <<"f", "e", "a", "t", "u", "r", "e">>,
                  <<"a", "d", "d">>,
                  <<"n", "e", "w">> }
FixWords == { <<"f", "i", "x">>,
              <<"b", "u", "g">>,
              <<"p", "a", "t", "c", "h">>,
              <<"r", "e", "p", "a", "i", "r">> }
SecurityWords == { <<"s", "e", "c", "u", "r", "i", "t", "y">>,
                   <<"v", "u", "l", "n", "e", "r", "a", "b", "i", "l", "i", "t", "y">>,
                   <<"c", "v", "e">> }
PerformanceWords == { <<"p", "e", "r", "f">>,
                      <<"p", "e", "r", "f", "o", "r", "m", "a", "n", "c", "e">>,
                      <<"o", "p", "t", "i", "m", "i", "z", "e">> }
DocsWords == { <<"d", "o", "c">>,
               <<"r", "e", "a", "d", "m", "e">>,
               <<"d", "o", "c", "u", "m", "e", "n", "t", "a", "t", "i", "o", "n">> }

W_test == <<"t", "e", "s", "t">>
W_md == <<".", "m", "d">>
W_dot == <<".">>
W_config == <<"c", "o", "n", "f", "i", "g">>

\* any(word in commit_message or word in title for word in words)
AnyWord(words, commit_message, title) ==
    \E w \in words : Contains(w, commit_message) \/ Contains(w, title)

\* any(label in names for label in labels)
AnyLabel(labels, names) == labels \cap names # {}

\* (variant) the title and commit message are consulted before the labels
categorize_changes_text_first(info) ==
    LET files_changed == PyGet(info, "files_changed", <<>>)
        labels == PyGet(info, "labels", {})
        commit_message == Lower(PyGet(info, "commit_message", <<>>))
        title == Lower(PyGet(info, "title", <<>>))
    IN
    IF AnyWord(BreakingWords, commit_message, title) THEN "breaking"
    ELSE IF AnyWord(FeatureWords, commit_message, title) THEN "feature"
    ELSE IF AnyWord(FixWords, commit_message, title) THEN "fix"
    ELSE IF AnyWord(SecurityWords, commit_message, title) THEN "security"
    ELSE IF AnyWord(PerformanceWords, commit_message, title) THEN "performance"
    ELSE IF AnyWord(DocsWords, commit_message, title) THEN "docs"
    ELSE IF AnyLabel(labels, {"breaking-change", "major"}) THEN "breaking"
    ELSE IF AnyLabel(labels, {"feature", "enhancement"}) THEN "feature"
    ELSE IF AnyLabel(labels, {"bugfix", "fix", "bug"}) THEN "fix"
    ELSE IF AnyLabel(labels, {"security"}) THEN "security"
    ELSE IF AnyLabel(labels, {"performance"}) THEN "performance"
    ELSE IF AnyLabel(labels, {"documentation", "docs"}) THEN "docs"
    ELSE IF \E i \in 1..Len(files_changed) : Contains(W_test, Lower(files_changed[i]))
         THEN "test"
    ELSE IF \E i \in 1..Len(files_changed) : EndsWith(files_changed[i], W_md)
         THEN "docs"
    ELSE IF \E i \in 1..Len(files_changed) :
               \/ StartsWith(files_changed[i], W_dot)
               \/ Contains(W_config, Lower(files_changed[i]))
         THEN "config"
    ELSE "other"

categorize_changes(info) ==
    LET files_changed == PyGet(info, "files_changed", <<>>)
        labels == PyGet(info, "labels", {})
        commit_message == Lower(PyGet(info, "commit_message", <<>>))
        title == Lower(PyGet(info, "title", <<>>))
    IN
    IF AnyLabel(labels, {"breaking-change", "major"}) THEN "breaking"
    ELSE IF AnyLabel(labels, {"feature", "enhancement"}) THEN "feature"
    ELSE IF AnyLabel(labels, {"bugfix", "fix", "bug"}) THEN "fix"
    ELSE IF AnyLabel(labels, {"security"}) THEN "security"
    ELSE IF AnyLabel(labels, {"performance"}) THEN "performance"
    ELSE IF AnyLabel(labels, {"documentation", "docs"}) THEN "docs"
    ELSE IF AnyWord(BreakingWords, commit_message, title) THEN "breaking"
    ELSE IF AnyWord(FeatureWords, commit_message, title) THEN "feature"
    ELSE IF AnyWord(FixWords, commit_message, title) THEN "fix"
    ELSE IF AnyWord(SecurityWords, commit_message, title) THEN "security"
    ELSE IF AnyWord(PerformanceWords, commit_message, title) THEN "performance"
    ELSE IF AnyWord(DocsWords, commit_message, title) THEN "docs"
    ELSE IF \E i \in 1..Len(files_changed) : Contains(W_test, Lower(files_changed[i]))
         THEN "test"
    ELSE IF \E i \in 1..Len(files_changed) : EndsWith(files_changed[i], W_md)
         THEN "docs"
    ELSE IF \E i \in 1..Len(files_changed) :
               \/ StartsWith(files_changed[i], W_dot)
               \/ Contains(W_config, Lower(files_changed[i]))
         THEN "config"
    ELSE "other"

\* the inputs categorize_changes is applied to; a key may be missing
Absent == [present |-> FALSE]
Given(x) == [present |-> TRUE, data |-> x]

LabelPool == {"breaking-change", "feature", "bug", "security", "performance",
              "docs", "wontfix"}

LabelInputs ==
    {Absent} \cup {Given(S) : S \in {L \in SUBSET LabelPool : Cardinality(L) <= MaxLabels}}

TitleInputs ==
    {Absent} \cup {Given(t) : t \in
        { <<"F", "i", "x", " ", "l", "o", "g", "i", "n", " ", "b", "u", "g">>,
          <<"A", "d", "d", " ", "d", "a", "r", "k", " ", "m", "o", "d", "e">>,
          <<"P", "r", "e", "f", "i", "x", " ", "c", "l", "e", "a", "n", "u", "p">>,
          <<"U", "p", "d", "a", "t", "e", " ", "R", "E", "A", "D", "M", "E">>,
          <<"B", "u", "m", "p", " ", "d", "e", "p", "s">>,
          <<"B", "R", "E", "A", "K", "I", "N", "G", ":", " ", "d", "r", "o", "p", " ", "v", "1">> }}

MessageInputs ==
    {Absent} \cup {Given(t) : t \in
        { <<"M", "e", "r", "g", "e", " ", "b", "r", "a", "n", "c", "h", " ", "'", "u", "i", "'", " ", "i", "n", "t", "o", " ", "'", "m", "a", "i", "n", "'">>,
          <<"M", "e", "r", "g", "e", " ", "b", "r", "a", "n", "c", "h", " ", "'", "p", "e", "r", "f", "/", "c", "a", "c", "h", "e", "'", " ", "i", "n", "t", "o", " ", "'", "m", "a", "i", "n", "'">>,
          <<"M", "e", "r", "g", "e", " ", "b", "r", "a", "n", "c", "h", " ", "'", "h", "o", "t", "f", "i", "x", "'", " ", "i", "n", "t", "o", " ", "'", "m", "a", "i", "n", "'">> }}

FilesInputs ==
    {Absent} \cup {Given(t) : t \in
        { <<>>,
          <<<<"s", "r", "c", "/", "a", "p", "p", ".", "p", "y">>>>,
          <<<<"R", "E", "A", "D", "M", "E", ".", "m", "d">>>>,
          <<<<".", "g", "i", "t", "l", "a", "b", "-", "c", "i", ".", "y", "m", "l">>>>,
          <<<<"t", "e", "s", "t", "s", "/", "t", "e", "s", "t", "_", "a", ".", "p", "y">>, <<"R", "E", "A", "D", "M", "E", ".", "m", "d">>>>,
          <<<<"s", "r", "c", "/", "a", "p", "p", ".", "p", "y">>, <<"C", "o", "n", "f", "i", "g", "/", "a", "p", "p", ".", "y", "m", "l">>>> }}

MergeInfo(labels, title, commit_message, files_changed) ==
    LET opt == [labels |-> labels, title |-> title,
                commit_message |-> commit_message, files_changed |-> files_changed]
    IN [k \in {x \in DOMAIN opt : opt[x].present} |-> opt[k].data]

CategorizeInit ==
    /\ merge_info \in {MergeInfo(l, t, m, f) : l \in LabelInputs, t \in TitleInputs,
                                             m \in MessageInputs, f \in FilesInputs}
    /\ returned_category = "(not called)"

Categorize ==
    /\ returned_category = "(not called)"
    /\ returned_category' = categorize_changes(merge_info)
    /\ UNCHANGED merge_info

CategorizeNext == Categorize

CategorizeIdle ==
    /\ merge_info = <<>>
    /\ returned_category = "(idle)"

(***************************************************************************)
(* Specifications: one per program.                                        *)
(***************************************************************************)
Init == ReviewerInit /\ TaggerIdle /\ CategorizeIdle /\ ScanIdle /\ ScriptIdle

Next == ReviewerNext /\ UNCHANGED <<taggerVars, categorizeVars, scanVars, scriptVars>>

Spec == Init /\ [][Next]_vars

TaggerSpecInit == TaggerInit /\ ReviewerIdle /\ CategorizeIdle /\ ScanIdle /\ ScriptIdle

TaggerSpecNext == TaggerNext /\ UNCHANGED <<reviewerVars, categorizeVars, scanVars, scriptVars>>

SpecTagger == TaggerSpecInit /\ [][TaggerSpecNext]_vars

EnsureSpecInit == EnsureInit /\ ReviewerIdle /\ CategorizeIdle /\ ScanIdle /\ ScriptIdle

EnsureSpecNext == EnsureCall /\ UNCHANGED <<reviewerVars, categorizeVars, scanVars, scriptVars>>

SpecEnsure == EnsureSpecInit /\ [][EnsureSpecNext]_vars

CategorizeSpecInit == CategorizeInit /\ ReviewerIdle /\ TaggerIdle /\ ScanIdle /\ ScriptIdle

CategorizeSpecNext == CategorizeNext /\ UNCHANGED <<reviewerVars, taggerVars, scanVars, scriptVars>>

SpecCategorize == CategorizeSpecInit /\ [][CategorizeSpecNext]_vars

ScanSpecInit == ScanInit /\ ReviewerIdle /\ TaggerIdle /\ CategorizeIdle /\ ScriptIdle

ScanSpecNext == Scan /\ UNCHANGED <<reviewerVars, taggerVars, categorizeVars, scriptVars>>

SpecScan == ScanSpecInit /\ [][ScanSpecNext]_vars

RunsSpecInit == RunsInit /\ TaggerIdle /\ CategorizeIdle /\ ScanIdle /\ ScriptIdle

RunsSpecNext == RunsNext /\ UNCHANGED <<taggerVars, categorizeVars, scanVars, scriptVars>>

SpecRuns == RunsSpecInit /\ [][RunsSpecNext]_vars

\* the three entry points of the pipeline, each started on its own
EntryInit ==
    \/ RunsInit /\ TaggerIdle /\ ScriptIdle /\ CategorizeIdle /\ ScanIdle
    \/ TaggerInit /\ ReviewerIdle /\ ScriptIdle /\ CategorizeIdle /\ ScanIdle
    \/ ScriptInit /\ ReviewerIdle /\ TaggerIdle /\ CategorizeIdle /\ ScanIdle

EntryNext ==
    \/ ReviewerNext /\ UNCHANGED <<taggerVars, scriptVars, categorizeVars, scanVars>>
    \/ TaggerNext /\ UNCHANGED <<reviewerVars, scriptVars, categorizeVars, scanVars>>
    \/ ScriptNext /\ UNCHANGED <<reviewerVars, taggerVars, categorizeVars, scanVars>>

SpecEntryPoints == EntryInit /\ [][EntryNext]_vars

(***************************************************************************)
(* Properties of SmartCodeReviewer.run                                     *)
(***************************************************************************)
LoopOver == pc \in {"post", "save", "done", "crashed"}

\* the model answered file j of changed_files with text that is not JSON
Unparseable(j) ==
    /\ ai_log[j].called
    /\ ~ai_log[j].raises
    /\ json_loads(ai_log[j].text) = JSONDecodeError

\* C1: a file whose AI response is not parseable as JSON gets a result with
\* error = "Failed to parse AI response" and the raw text, and the files after
\* it still get their own result in the same run: the results follow the
\* changed files one to one, and after the loop there is one per file.
C1_UnparseableIsolated ==
    /\ Len(review_results) = Len(ai_log)
    /\ Len(review_results) = idx - 1
    /\ \A j \in 1..Len(review_results) :
          /\ review_results[j]["file"] = JStr(changed_files[j])
          /\ Unparseable(j) =>
                /\ review_results[j]["error"] = JStr("Failed to parse AI response")
                /\ review_results[j]["raw_response"] = JStr(ai_log[j].text)
    /\ pc = "loop" => idx <= Len(changed_files)
    /\ LoopOver => Len(review_results) = Len(changed_files)

\* C1 witness: an unparseable answer for one file, and the next file reviewed
\* by the model with an accepted answer, in a run that finished.
C1_Witness ==
    /\ pc = "done"
    /\ \E j \in 1..(Len(review_results) - 1) :
          /\ Unparseable(j)
          /\ ai_log[j + 1].called
          /\ "error" \notin DOMAIN review_results[j + 1]

\* C2 (as claimed): with at least one file discovered, no fault propagates out
\* of run, whatever the diff, the AI response and the comment post do.
C2_NoFaultLeavesRun == changed_files # <<>> => pc # "crashed"

\* the JSON shape the prompt asks for
IsListOf(x, ty) == x.t = "arr" /\ \A k \in 1..Len(x.v) : x.v[k].t = ty

ExpectedShape(x) ==
    /\ x.t = "obj"
    /\ {"summary", "issues", "positive_aspects", "has_breaking_changes",
        "performance_impact", "follow_up_actions"} \subseteq DOMAIN x.v
    /\ x.v["summary"].t = "str"
    /\ IsListOf(x.v["issues"], "obj")
    /\ IsListOf(x.v["positive_aspects"], "str")
    /\ x.v["has_breaking_changes"].t = "bool"
    /\ x.v["performance_impact"] \in {JStr("positive"), JStr("negative"), JStr("neutral")}
    /\ IsListOf(x.v["follow_up_actions"], "str")

\* C3 (as claimed): a response that is valid JSON but not of the expected shape
\* gives a result with error = "Failed to parse AI response" that carries none
\* of the response's data.
C3_SchemaMismatchRejected ==
    \A j \in 1..Len(review_results) :
       ( /\ ai_log[j].called
         /\ ~ai_log[j].raises
         /\ json_loads(ai_log[j].text) # JSONDecodeError
         /\ ~ExpectedShape(json_loads(ai_log[j].text)) )
       => /\ DOMAIN review_results[j] \subseteq {"file", "error", "raw_response"}
          /\ "error" \in DOMAIN review_results[j]
          /\ review_results[j]["error"] = JStr("Failed to parse AI response")

StatusWritten == artifacts # <<>>

\* C4: in the status record, overall_status is needs_attention exactly when the
\* recorded number of security findings is above zero or some result's
\* has_breaking_changes is true (in Python's sense of truth); else approved.
C4_OverallStatus ==
    StatusWritten =>
       LET st == artifacts.ai_review_status
           breaking == \E i \in 1..Len(review_results) :
                          /\ "has_breaking_changes" \in DOMAIN review_results[i]
                          /\ Truthy(review_results[i]["has_breaking_changes"])
       IN /\ st.overall_status \in {"needs_attention", "approved"}
          /\ st.overall_status = "needs_attention" <=> (st.security_issues > 0 \/ breaking)

\* C4 witness: a status record of a run with a breaking change and no finding.
C4_Witness ==
    /\ StatusWritten
    /\ artifacts.ai_review_status.security_issues = 0
    /\ artifacts.ai_review_status.overall_status = "needs_attention"

CallsFor(i) == Cardinality({k \in 1..Len(llm_calls) : llm_calls[k] = i})

\* C5: within a run the model is called at most once per changed file, also
\* after a failed or unparseable call.
C5_AtMostOneCallPerFile ==
    \A i \in 1..Len(changed_files) : CallsFor(i) <= 1

\* C5 witness: a finished run in which one file's call raised and another's
\* answer was unparseable, each called exactly once.
C5_Witness ==
    /\ pc = "done"
    /\ \E i, j \in 1..Len(ai_log) :
          /\ ai_log[i].called /\ ai_log[i].raises /\ CallsFor(i) = 1
          /\ Unparseable(j) /\ CallsFor(j) = 1

\* C6: when no changed path passes the filters, the run returns without a call
\* to the model, without a comment post, and without an artifact that claims a
\* file count other than zero.
C6_EmptyChangeSet ==
    (pc \notin {"init", "start", "exit1"} /\ FilterReviewable(git_files) = <<>>)
    => /\ pc = "returned"
       /\ llm_calls = <<>>
       /\ notes = <<>>
       /\ (artifacts = <<>> \/ artifacts.ai_review_status.total_files = 0)

\* C6 witness: git listed paths, none passed the filters, and run returned.
C6_Witness ==
    /\ pc = "returned"
    /\ git_files # <<>>
    /\ FilterReviewable(git_files) = <<>>

(***************************************************************************)
(* Properties of IntelligentTagger                                         *)
(***************************************************************************)
\* C7 (as claimed): create_label_if_needed sends a create request only for a
\* name the project does not have, returns success without one for a name it
\* has, and two consecutive calls for one name send at most one create request
\* and both return success, whatever the label lookup does.
C7_EnsureIdempotent ==
    /\ \A k \in 1..Len(ensure_log) :
          /\ ensure_log[k].posts # <<>> => ~ensure_log[k].existed
          /\ ensure_log[k].existed => ensure_log[k].result /\ ensure_log[k].posts = <<>>
    /\ \A k \in 1..(Len(ensure_log) - 1) :
          ensure_log[k].name = ensure_log[k + 1].name
          => /\ Len(ensure_log[k].posts) + Len(ensure_log[k + 1].posts) <= 1
             /\ ensure_log[k].result
             /\ ensure_log[k + 1].result

\* the final tags for which create_label_if_needed returned True
EnsuredOk == {ensure_log[k].name : k \in {i \in 1..Len(ensure_log) : ensure_log[i].result}}

\* C8: a tag whose label could not be ensured is left out and the run goes on:
\* every final tag is ensured in turn, the apply request carries exactly the
\* tags for which create_label_if_needed returned True, applied_tags.json
\* lists exactly those, and no apply request is made when there is none.
C8_ApplyExactlyEnsured ==
    /\ \A k \in 1..Len(ensure_log) : ensure_log[k].name = final_tags[k]
    /\ t_pc \in {"apply", "done"} => Len(ensure_log) = Len(final_tags)
    /\ Len(apply_log) <= 1
    /\ \A a \in 1..Len(apply_log) :
          /\ apply_log[a].req.method = "PUT"
          /\ SplitComma(apply_log[a].req.value) = EnsuredOk
    /\ applied_tags_file.present =>
          /\ Range(applied_tags_file.data.applied_tags) = EnsuredOk
          /\ Len(applied_tags_file.data.applied_tags) = Cardinality(EnsuredOk)
    /\ t_pc = "done" =>
          /\ apply_log = <<>> <=> EnsuredOk = {}
          /\ applied_tags_file.present <=> EnsuredOk # {}

\* C8 witness: a finished run in which one label failed, a later one succeeded
\* and the apply request was made.
C8_Witness ==
    /\ t_pc = "done"
    /\ apply_log # <<>>
    /\ \E i, j \in 1..Len(ensure_log) :
          i < j /\ ~ensure_log[i].result /\ ensure_log[j].result

Categories == {"breaking", "security", "feature", "fix", "performance", "docs",
               "test", "config", "other"}

\* the rule order of the design: labels, then title/commit-message keywords,
\* then file paths
CategoryRules ==
    << [kind |-> "label", names |-> {"breaking-change", "major"}, category |-> "breaking"],
       [kind |-> "label", names |-> {"feature", "enhancement"}, category |-> "feature"],
       [kind |-> "label", names |-> {"bugfix", "fix", "bug"}, category |-> "fix"],
       [kind |-> "label", names |-> {"security"}, category |-> "security"],
       [kind |-> "label", names |-> {"performance"}, category |-> "performance"],
       [kind |-> "label", names |-> {"documentation", "docs"}, category |-> "docs"],
       [kind |-> "text", names |-> BreakingWords, category |-> "breaking"],
       [kind |-> "text", names |-> FeatureWords, category |-> "feature"],
       [kind |-> "text", names |-> FixWords, category |-> "fix"],
       [kind |-> "text", names |-> SecurityWords, category |-> "security"],
       [kind |-> "text", names |-> PerformanceWords, category |-> "performance"],
       [kind |-> "text", names |-> DocsWords, category |-> "docs"],
       [kind |-> "path-test", names |-> {}, category |-> "test"],
       [kind |-> "path-md", names |-> {}, category |-> "docs"],
       [kind |-> "path-config", names |-> {}, category |-> "config"] >>

InfoLabels == IF "labels" \in DOMAIN merge_info THEN merge_info["labels"] ELSE {}
InfoTexts ==
    {Lower(merge_info[k]) : k \in {"title", "commit_message"} \cap DOMAIN merge_info}
InfoPaths ==
    IF "files_changed" \in DOMAIN merge_info THEN Range(merge_info["files_changed"]) ELSE {}

RuleMatches(rule) ==
    CASE rule.kind = "label" -> \E l \in InfoLabels : l \in rule.names
      [] rule.kind = "text"  -> \E w \in rule.names, t \in InfoTexts : Contains(w, t)
      [] rule.kind = "path-test" -> \E p \in InfoPaths : Contains(W_test, Lower(p))
      [] rule.kind = "path-md" -> \E p \in InfoPaths : EndsWith(p, W_md)
      [] rule.kind = "path-config" ->
            \E p \in InfoPaths : StartsWith(p, W_dot) \/ Contains(W_config, Lower(p))

MatchingRules == {k \in 1..Len(CategoryRules) : RuleMatches(CategoryRules[k])}

FirstMatch ==
    IF MatchingRules = {} THEN "other"
    ELSE CategoryRules[CHOOSE k \in MatchingRules : \A m \in MatchingRules : k <= m].category

\* C10: categorize_changes is total and first match wins: for every merge_info,
\* with or without labels, title, commit message and files, it returns one of
\* the nine categories, that of the first rule that matches in the order label
\* rules, keyword rules, file-path rules, and `other` when none matches; a
\* label rule that matches decides, whatever the keywords say.
C10_FirstMatchWins ==
    returned_category \notin {"(not called)", "(idle)"} =>
       /\ returned_category \in Categories
       /\ returned_category = FirstMatch
       /\ \A k \in MatchingRules :
             (CategoryRules[k].kind = "label" /\ \A m \in MatchingRules : k <= m)
             => returned_category = CategoryRules[k].category

\* C10 witness: the label says fix, the title says feature, the result is fix.
C10_Witness ==
    /\ returned_category = "fix"
    /\ 3 \in MatchingRules
    /\ 8 \in MatchingRules
    /\ 2 \notin MatchingRules

(***************************************************************************)
(* Properties of the status record and the derived tags                    *)
(***************************************************************************)
HighFindings(sec) == Cardinality({k \in 1..Len(sec) : sec[k].severity = "high"})

\* C11 (as claimed): high_severity_issues in the status record counts the
\* high-severity items of both kinds, the AI-flagged issues of every result
\* and the heuristic security findings of the run; so a run with a
\* hardcoded-secret finding reports at least one.
C11_HighCountsFindings ==
    StatusWritten =>
       artifacts.ai_review_status.high_severity_issues
          = high_severity(review_results) + HighFindings(security_issues)

\* C13 (as claimed): the `performance` tag is derived exactly when some result
\* reports a performance_impact other than neutral.
C13_PerformanceTag ==
    StatusWritten =>
       LET nonNeutral == \E i \in 1..Len(review_results) :
                            /\ "performance_impact" \in DOMAIN review_results[i]
                            /\ review_results[i]["performance_impact"] # JStr("neutral")
       IN (\E k \in 1..Len(artifacts.ai_tags) : artifacts.ai_tags[k] = "performance")
             <=> nonNeutral

\* the response as json.loads returns it, for the file at position j
ResponseOf(j) == json_loads(ai_log[j].text)

\* an accepted response: the call returned a JSON object with a list of issue
\* objects
Accepted(j) ==
    /\ ai_log[j].called
    /\ ~ai_log[j].raises
    /\ ResponseOf(j).t = "obj"
    /\ IsListOf(Issues(ResponseOf(j).v), "obj")

SeverityLevels == {JStr("high"), JStr("medium"), JStr("low")}

\* the issue's line is not a number or is negative, or its severity is not
\* one of the three levels
NeedsNormalising(issue) ==
    \/ PyGet(issue.v, "line", JNull).t # "num"
    \/ PyGet(issue.v, "line", JNull).v < 0
    \/ PyGet(issue.v, "severity", JNull) \notin SeverityLevels

\* C12 (as claimed): every issue of an accepted response is kept; one whose
\* line is non-numeric or negative, or whose severity is outside high, medium,
\* low, is stored with severity low; so the result has as many issues as the
\* response and every stored severity is one of the three levels.
C12_IssuesNormalised ==
    \A j \in 1..Len(review_results) :
       Accepted(j) =>
          LET sent   == Issues(ResponseOf(j).v).v
              stored == Issues(review_results[j]).v
          IN /\ Len(stored) = Len(sent)
             /\ \A k \in 1..Len(stored) :
                   /\ PyGet(stored[k].v, "severity", JNull) \in SeverityLevels
                   /\ NeedsNormalising(sent[k])
                         => PyGet(stored[k].v, "severity", JNull) = JStr("low")

(***************************************************************************)
(* Properties of enhance_tags_with_context and of the tag order            *)
(***************************************************************************)
Enhanced == t_pc \in {"ensure", "apply", "done"}

\* the counts of the status record, 0 for a count that is not there
StatusCount(key) == PyGet(load_review_status(status_file), key, 0)

\* the rule table of the status tags
StatusTags ==
    {"ai-reviewed"}
    \cup {t \in {"security-review-needed"} : StatusCount("security_issues") > 0}
    \cup {t \in {"high-priority"} : StatusCount("high_severity_issues") > 0}
    \cup {t \in {"ready-for-review"} : /\ StatusCount("high_severity_issues") = 0
                                       /\ StatusCount("total_issues") = 0}
    \cup {t \in {"needs-attention"} : StatusCount("total_issues") > 10}
    \cup {t \in {"clean-code"} : StatusCount("total_issues") = 0}

\* C14: the tags enhance returns are the input tags and exactly the status
\* tags of the rule table, no input tag is lost, and the two exclusive pairs
\* of status tags appear together only when the input supplied one of them.
C14_EnhanceRuleTable ==
    Enhanced =>
       LET input == Range(load_ai_tags(ai_tags_file))
           out   == Range(final_tags)
       IN /\ out = input \cup StatusTags
          /\ input \subseteq out
          /\ {"high-priority", "ready-for-review"} \subseteq out
                => {"high-priority", "ready-for-review"} \cap input # {}
          /\ {"needs-attention", "clean-code"} \subseteq out
                => {"needs-attention", "clean-code"} \cap input # {}

\* C14 witness: no high-severity issue but issues above ten: neither
\* `ready-for-review` nor `clean-code`, and `needs-attention` is there.
C14_Witness ==
    /\ Enhanced
    /\ StatusCount("high_severity_issues") = 0
    /\ StatusCount("total_issues") > 10
    /\ "needs-attention" \in Range(final_tags)
    /\ "ready-for-review" \notin Range(final_tags)
    /\ Range(load_ai_tags(ai_tags_file)) \subseteq Range(final_tags)

\* every tag of the two vocabularies, in the order sorted() gives strings
TagOrder ==
    << "ai-reviewed", "api", "breaking-change", "clean-code", "config", "database",
       "documentation", "frontend", "high-priority", "java", "javascript",
       "needs-attention", "performance", "python", "ready-for-review", "security",
       "security-review-needed", "testing" >>

TagRank(t) == CHOOSE k \in 1..Len(TagOrder) : TagOrder[k] = t

\* strictly ascending: sorted and free of duplicates
StrictlySorted(tags) ==
    \A i, j \in 1..Len(tags) : i < j => TagRank(tags[i]) < TagRank(tags[j])

\* C15 (as claimed): the tag lists returned by determine_tags and by
\* enhance_tags_with_context have no duplicate and are in sorted order.
C15_TagsSortedNoDuplicates ==
    /\ StatusWritten => StrictlySorted(artifacts.ai_tags)
    /\ Enhanced => StrictlySorted(final_tags)

(***************************************************************************)
(* Properties of analyze_security_issues                                   *)
(***************************************************************************)
\* the text has a line that reads password = "x"
HasPasswordLine(content) ==
    \E pos \in 1..Len(content) :
       /\ pos + Len(L_password) - 1 <= Len(content)
       /\ SubSeq(content, pos, pos + Len(L_password) - 1) = L_password
       /\ (pos = 1 \/ content[pos - 1] = "\n")
       /\ (pos + Len(L_password) > Len(content) \/ content[pos + Len(L_password)] = "\n")

\* a match of some hardcoded-secret expression begins at pos
SecretMatchAt(content, pos) ==
    \E p \in 1..Len(security_patterns) :
       /\ security_patterns[p].category = "hardcoded_secrets"
       /\ MatchAt(security_patterns[p], 1, content, pos) # 0

\* some finding of the given category and of severity high stands on the line
\* of a match: newline characters before the match, plus one
FlaggedAs(category) ==
    \E k \in 1..Len(scan_findings.issues) :
       /\ scan_findings.issues[k].category = category
       /\ scan_findings.issues[k].severity = "high"
       /\ \E pos \in 1..Len(scan_content) :
             /\ SecretMatchAt(scan_content, pos)
             /\ scan_findings.issues[k].line = CountNewlines(scan_content, pos) + 1

SecretKeyScenario ==
    /\ changed_files = <<"app.py">>
    /\ pc \in {"done", "crashed"}
    /\ ai_log[1].called
    /\ ai_log[1].content = SecretContent.text

\* what C17 says of the end of the run
SecretKeyOutcome ==
    /\ pc = "done"
    /\ security_issues = << [file |-> "app.py", line |-> 2,
                             category |-> "hardcoded_secrets", severity |-> "high"] >>
    /\ {"python", "security-review-needed"} \subseteq Range(artifacts.ai_tags)
    /\ artifacts.ai_review_status.overall_status = "needs_attention"

\* C17 (as claimed): in the scenario the run records exactly one
\* hardcoded-secret finding of severity high on the line of the secret, the
\* tags contain python and security-review-needed and the status record says
\* needs_attention, whatever the AI service returns.
C17_SecretKeyScenario == SecretKeyScenario => SecretKeyOutcome

(***************************************************************************)
(* Properties of the summary post                                          *)
(***************************************************************************)
\* the post attempts of run r
PostsOf(r) == {k \in 1..Len(notes) : notes[k].run = r}

\* C19: a failed summary post (another status than 201, or an exception of
\* the request) does not abort the run: once the post of a run was attempted,
\* whatever its outcome, the run goes on to save_results, which then writes
\* the artifacts; the post is not tried again, a run makes at most one
\* attempt, and nothing keeps a later run from posting the same summary, so k
\* runs make up to k posts.
C19_PostFireAndForget ==
    /\ \A r \in 1..run_no : Cardinality(PostsOf(r)) <= 1
    /\ Len(notes) <= run_no
    /\ \A k \in 1..Len(notes) : notes[k].run <= run_no
    /\ PostsOf(run_no) # {} =>
          /\ pc \in {"save", "done"}
          /\ pc = "save" => ~save_results(review_results, security_issues).raised
          /\ pc = "done" => StatusWritten

\* C19 witness: the post of the first run failed and its artifacts were
\* written all the same; the second run posted the same summary again.
C19_Witness ==
    /\ run_no = 2
    /\ pc = "done"
    /\ StatusWritten
    /\ Len(notes) = 2
    /\ notes[1].outcome # "201"
    /\ notes[2].body = notes[1].body

(***************************************************************************)
(* Properties of the change set                                            *)
(***************************************************************************)
Discovered == pc \in {"loop", "post", "save", "done", "crashed", "returned"}

\* the three filters, in the order the claim gives them
Ignored(p) == MatchesIgnorePattern(p)
TooBig(p) == PathExists(p) /\ StatSize(p) > max_file_size
NotCode(p) == Suffix(p) \notin code_extensions

Excluded(p) == Ignored(p) \/ TooBig(p) \/ NotCode(p)

\* the listed paths that no filter excludes, in the listed order
Kept(files) == SelectSeq(files, LAMBDA p : ~Excluded(p))

\* C20: a changed file larger than the limit is never in the output of
\* get_changed_files, whatever its extension; the output is the listed files
\* that pass the ignore patterns, the size limit and the extension allowlist
\* (or nothing, when git failed); a file that fails a filter gets no
\* ReviewResult and no error. The tests are made in that order, and as each
\* of them only excludes, the output is the same as for their conjunction.
C20_SizeLimitFilter ==
    Discovered =>
       /\ \A i \in 1..Len(changed_files) : ~TooBig(changed_files[i])
       /\ changed_files \in {Kept(git_files), <<>>}
       /\ \A j \in 1..Len(review_results) :
             /\ j <= Len(changed_files)
             /\ review_results[j]["file"] = JStr(changed_files[j])
             /\ ~Excluded(changed_files[j])

\* C20 witness: git listed a file over the limit with a code extension and an
\* ignored file next to a reviewable one; the run finished with one result.
C20_Witness ==
    /\ pc = "done"
    /\ git_files = <<"app.py", "big.py", "lib.min.js">>
    /\ changed_files = <<"app.py">>
    /\ Len(review_results) = 1

(***************************************************************************)
(* Properties of the entry points' startup                                 *)
(***************************************************************************)
\* the reviewer has neither discovered a file nor sent a request
ReviewerIdleSoFar ==
    /\ pc \in {"init", "exit1"}
    /\ changed_files = <<>>
    /\ llm_calls = <<>>
    /\ notes = <<>>

TaggerIdleSoFar ==
    /\ t_pc \in {"init", "exit1"}
    /\ final_tags = <<>>
    /\ ensure_log = <<>>
    /\ apply_log = <<>>

ScriptIdleSoFar ==
    /\ s_pc \in {"init", "exit1"}
    /\ s_requests = <<>>

TaggerConfigured == t_cfg.gitlab_token /\ t_cfg.project_id /\ t_cfg.mr_iid

ScriptConfigured ==
    s_cfg.llm_key /\ s_cfg.gitlab_pat /\ s_cfg.project_id /\ s_cfg.mr_iid

ResponseIssues(j) == Issues(ResponseOf(j).v).v

\* C21: in a posted summary comment the section of a file whose response was
\* accepted with n issues lists exactly min(n, 5) of them, the first ones of
\* the response in their order, and carries the "N more" line, with N = n - 5,
\* exactly when n > 5.
C21_SummaryTruncation ==
    \A k \in 1..Len(notes) : \A j \in 1..Len(notes[k].body.sections) :
        Accepted(j) =>
           LET n == Len(ResponseIssues(j))
               section == notes[k].body.sections[j] IN
           /\ "error" \notin DOMAIN section
           /\ Len(section.shown) = Min(n, 5)
           /\ \A i \in 1..Len(section.shown) : section.shown[i] = ResponseIssues(j)[i]
           /\ section.more > 0 <=> n > 5
           /\ n > 5 => section.more = n - 5

\* C21 witness: a posted comment has a section with five issues shown and one
\* more announced, and another one with fewer than five and no such line.
C21_Witness ==
    \E k \in 1..Len(notes) : \E j1, j2 \in 1..Len(notes[k].body.sections) :
        /\ Accepted(j1) /\ Accepted(j2)
        /\ Len(ResponseIssues(j1)) = 6
        /\ notes[k].body.sections[j1].more = 1
        /\ Len(ResponseIssues(j2)) = 3
        /\ notes[k].body.sections[j2].more = 0

(***************************************************************************)
(* Properties of the run's collections                                     *)
(***************************************************************************)
IsPrefix(a, b) == Len(a) <= Len(b) /\ SubSeq(b, 1, Len(a)) = a

\* idx - 1 files have been processed: so many results, in the files' order
OneResultPerFile ==
    /\ Len(review_results) = idx - 1
    /\ Len(review_results) <= Len(changed_files)
    /\ \A j \in 1..Len(review_results) : review_results[j]["file"] = JStr(changed_files[j])
    /\ LoopOver => Len(review_results) = Len(changed_files)
    /\ StatusWritten => artifacts.ai_review_status.total_files = Len(changed_files)

\* a step only appends: one result per step, and findings of that file only;
\* nothing changes once the loop is over
AppendOnly ==
    /\ IsPrefix(review_results, review_results')
    /\ IsPrefix(security_issues, security_issues')
    /\ Len(review_results') <= Len(review_results) + 1
    /\ \A k \in Len(security_issues) + 1 .. Len(security_issues') :
          /\ Len(review_results') = Len(review_results) + 1
          /\ security_issues'[k].file = changed_files[Len(review_results')]
    /\ LoopOver => UNCHANGED <<review_results, security_issues>>

\* C22: files are processed one at a time in discovery order: after i files the
\* result list has i entries and entry j is that of the j-th file; the result
\* list and the finding list only grow at their end, by one file at a time, and
\* stay as they are once the comment is rendered and the results are saved;
\* total_files of the status record is the number of discovered files.
C22_SequentialAppendOnly == []OneResultPerFile /\ [][AppendOnly]_vars

\* C22 witness: a run over three files has written its status, with findings
\* of two files in the finding list.
C22_Witness ==
    /\ StatusWritten
    /\ Len(changed_files) = 3
    /\ artifacts.ai_review_status.total_files = 3
    /\ \E a, b \in 1..Len(security_issues) : security_issues[a].file # security_issues[b].file

(***************************************************************************)
(* Properties of the scan within a run                                     *)
(***************************************************************************)
\* the findings of the files whose content and diff were obtained, as the
\* scanner alone gives them
ScanCount ==
    SumSeq([j \in 1..Len(ai_log) |->
              IF ai_log[j].called THEN Len(ScanTable[ai_log[j].content]) ELSE 0])

RunOver == pc \in {"done", "crashed"}

\* C23 (as claimed): the findings of every file whose content and diff were
\* obtained are in the run's finding list whatever the AI call did, and once
\* the run is over the status record carries their number, so the recorded
\* count is the same for every AI outcome.
C23_ScanIndependentOfAi ==
    /\ Len(security_issues) = ScanCount
    /\ RunOver => /\ StatusWritten
                  /\ artifacts.ai_review_status.security_issues = ScanCount

(***************************************************************************)
(* Properties of files that cannot be reviewed                             *)
(***************************************************************************)
\* the content of file j could not be read (or is empty), or it has no diff
NotObtained(j) == ~ai_log[j].has_content \/ ~ai_log[j].has_diff

\* C24: a file whose content cannot be read or whose diff is absent gets a
\* result made of its path and an error and nothing else; no call to the LLM
\* service is made for it and none of its findings enters the finding list;
\* the loop goes on: it is still at a file to process or past the last one,
\* and once it is over every file has its result.
C24_UnreviewableFileSkipped ==
    \A j \in 1..Len(ai_log) :
        NotObtained(j) =>
           /\ DOMAIN review_results[j] = {"file", "error"}
           /\ review_results[j]["file"] = JStr(changed_files[j])
           /\ ~ai_log[j].called
           /\ \A k \in 1..Len(llm_calls) : llm_calls[k] # j
           /\ \A k \in 1..Len(security_issues) : security_issues[k].file # changed_files[j]
           /\ pc = "loop" => idx = j + 1 \/ Len(review_results) > j
           /\ pc # "loop" => LoopOver /\ Len(review_results) = Len(changed_files)

\* C24 witness: the first file had content with a secret in it but no diff,
\* the second file was sent to the LLM service and the run wrote its status.
C24_Witness ==
    /\ pc = "done"
    /\ Len(ai_log) >= 2
    /\ ai_log[1].has_content /\ ~ai_log[1].has_diff
    /\ ai_log[2].called
    /\ llm_calls = <<2>>

(***************************************************************************)
(* Properties of a tagger run without tags                                 *)
(***************************************************************************)
\* ai_tags.txt is missing or has no line with a tag on it
NoTagGiven ==
    \/ ~ai_tags_file.present
    \/ \A i \in 1..Len(ai_tags_file.data) : ai_tags_file.data[i] \in {"", " "}

\* C25: when the tag artifact is missing or holds no tag, a tagger run looks
\* up no label, creates none and sends no apply request, whatever the status
\* record holds: the merge request keeps its labels, ai-reviewed is not among
\* them, applied_tags.json is not written and the run ends by returning.
C25_NoTagsNoRequests ==
    (t_pc # "idle" /\ NoTagGiven) =>
       /\ t_pc \in {"init", "exit1", "load", "returned"}
       /\ final_tags = <<>>
       /\ ensure_log = <<>>
       /\ created_labels = <<>>
       /\ apply_log = <<>>
       /\ mr_labels = MrLabels0
       /\ "ai-reviewed" \notin mr_labels
       /\ applied_tags_file = Missing

\* C25 witness: the tag artifact holds a blank line only, the status record
\* says needs_attention, and the run has returned.
C25_Witness ==
    /\ t_pc = "returned"
    /\ ai_tags_file = FileOf(<<" ">>)
    /\ status_file.present
    /\ status_file.data.overall_status = "needs_attention"
    /\ ensure_log = <<>>

(***************************************************************************)
(* Properties of the single-call review script                             *)
(***************************************************************************)
RequestsOf(kind) == {k \in 1..Len(s_requests) : s_requests[k].req = kind}

\* call_llm returned a value (null is not among ScriptResponses)
ResponseParsed == s_response # JNull

\* the positions of ai_response that are objects with a file and a line
Postable ==
    IF s_response.t \notin {"arr", "obj"} THEN {}
    ELSE {i \in 1..Len(Suggestions(s_response)) :
            /\ Suggestions(s_response)[i].t = "obj"
            /\ Truthy(PyGet(Suggestions(s_response)[i].v, "file", JNull))
            /\ Truthy(PyGet(Suggestions(s_response)[i].v, "line", JNull))}

ScriptOver == s_pc \in {"done", "exit1"}

\* the LLM is called at most once, as the third request, after the changes
\* and the description were fetched, and once when the run got past it
LlmCalledOnce ==
    /\ Cardinality(RequestsOf("POST llm")) <= 1
    /\ \A k \in RequestsOf("POST llm") :
          /\ k = 3
          /\ s_requests[1] = [req |-> "GET changes", ok |-> TRUE]
          /\ s_requests[2] = [req |-> "GET description", ok |-> TRUE]
    /\ ResponseParsed => Cardinality(RequestsOf("POST llm")) = 1

\* inline comments come after a parsed response, for postable entries only,
\* in the order of the response
InlineOnlyPostable ==
    \A k \in RequestsOf("POST discussion") :
        /\ ResponseParsed
        /\ k > 3
        /\ s_requests[k].item \in Postable
        /\ \A l \in RequestsOf("POST discussion") :
              l < k => s_requests[l].item < s_requests[k].item

\* an inline post that failed is followed, by the end of the run, by the posts
\* of the postable entries after it
FailedPostNotFinal ==
    \A k \in RequestsOf("POST discussion") :
        (ScriptOver /\ ~s_requests[k].ok) =>
           \A i \in Postable :
              i > s_requests[k].item =>
                 \E l \in RequestsOf("POST discussion") : s_requests[l].item = i

\* the summary note: the last request of a run whose response was parsed, sent
\* once, after an attempt for every postable entry; never sent otherwise
SummaryOnce ==
    /\ Cardinality(RequestsOf("POST note")) <= 1
    /\ \A k \in RequestsOf("POST note") :
          /\ ResponseParsed
          /\ k = Len(s_requests)
          /\ \A i \in Postable :
                \E l \in RequestsOf("POST discussion") : l < k /\ s_requests[l].item = i
    /\ (ScriptOver /\ ResponseParsed) => Cardinality(RequestsOf("POST note")) = 1
    /\ (ScriptOver /\ ~ResponseParsed) => s_pc = "exit1"

\* C26 (as claimed): in a run of the single-call script the LLM is called
\* exactly once, after the changes and the description were fetched; inline
\* comments are posted only after the response parsed as JSON and only for
\* entries that are objects with a file and a line; a failed inline post does
\* not prevent the later ones; the summary note is posted exactly once, after
\* all inline-post attempts, and never when the response was not valid JSON,
\* the run then exiting non-zero.
C26_ScriptEventOrder ==
    /\ LlmCalledOnce
    /\ InlineOnlyPostable
    /\ FailedPostNotFinal
    /\ SummaryOnce

====
